---------------------------- MODULE Spec2Model ----------------------------
(***************************************************************************)
(* A model of the PCB inspector: the defect classifier of inspector.py,    *)
(* the camera session of camera.py (zoom, frames, auto-zoom) and the       *)
(* inspection session of main.py (MainWindow and InspectionWorker).        *)
(*                                                                         *)
(* Numbers.  Similarity scores are Python floats; the model carries them   *)
(* in hundredths (30 is 0.30).  Zoom levels are floats; the model carries  *)
(* them as exact rationals <<n, d>> in lowest terms with d > 0.            *)
(***************************************************************************)
EXTENDS Integers, Sequences, FiniteSets, TLC

VARIABLES
    \* ---- inspector.py: one defect analysis
    regions,        \* comparison_result["regions_of_interest"], with each region's crop outcome
    analysis,       \* the value analyze_defects returned (None before the call)
    aligned,        \* one call of align_images: what it met and what it returned
    compared,       \* one call of compare_images: what it met and what it returned
    report,         \* the value generate_inspection_report returned for it
    \* ---- camera.py: CameraManager and its capture device
    is_connected,   \* CameraManager.is_connected
    zoom_level,     \* CameraManager.zoom_level
    cap,            \* the cv2.VideoCapture device: what it is and its zoom property
    frame,          \* the frame the caller holds: what get_frame or auto_zoom_to_board
                    \* just returned; it is dropped at the caller's next other call
    call,           \* the last CameraManager call: its name, argument, return value
    auto_focus,     \* CameraManager.auto_focus
    focus_distance, \* CameraManager.focus_distance
    detected,       \* one call of detect_board: its settings, the contours of the
                    \* frame and what it returned
    scene,          \* the board lying still before the camera: its width and height
                    \* in the pixels of an unzoomed frame (None: no such board)
    \* ---- main.py: MainWindow, its widgets, its InspectionWorker threads
    gui,            \* MainWindow's fields and the enabled/visible state of its widgets
    combo,          \* board_combo: its items (text, data) and current index (0: none)
    disk,           \* the QA sample store (list_qa_samples order), temp_front.jpg
                    \* as the board name its frame was taken for, if it is there
                    \* (is it there) and the clock
    worker,         \* the InspectionWorker self.inspection_worker refers to
    orphan,         \* a worker whose reference was overwritten while it was running
    signals,        \* signals the workers emitted that the main thread has not handled
    outcome,        \* what the Inspect Board request just handled came to (none
                    \* once anything else has happened)
    crashed,        \* the process was aborted (a running QThread was destroyed)
    user            \* the user the behaviour follows: "patient" or "impatient"

\* Python's Optional: None is the empty tuple, a value x is <<x>>.
None == << >>
Some(x) == <<x>>

defectVars == <<regions, analysis, aligned, compared, report>>
focusVars == <<auto_focus, focus_distance>>
cameraVars == <<is_connected, zoom_level, cap, frame, call, auto_focus, focus_distance,
                detected, scene>>
sessionVars == <<gui, combo, disk, worker, orphan, signals, outcome, crashed, user>>
vars == <<regions, analysis, aligned, compared, report, is_connected, zoom_level, cap, frame, call,
          auto_focus, focus_distance, detected, scene,
          gui, combo, disk, worker, orphan, signals, outcome, crashed, user>>

(***************************************************************************)
(* inspector.py: PCBInspector.analyze_defects and its helpers              *)
(***************************************************************************)

\* The structural similarity _analyze_region can compute for a crop, in
\* hundredths: the band edges 0.3, 0.7, 0.9, their neighbours, and the ends.
SimValues == {-50, 0, 29, 30, 31, 69, 70, 71, 89, 90, 91, 100}

\* What the similarity computation of _analyze_region gives for one crop: a
\* score, or an exception (ok = FALSE: a crop thinner than the ssim window).
CropOutcomes ==
    [ ok : {TRUE}, sim : SimValues ] \cup { [ ok |-> FALSE, sim |-> 0 ] }

MaxRegions == 3

\* defect_type_of with the band edges taken inclusively (<= for <).
defect_type_of_inclusive(s) ==
    IF s <= 30 THEN "missing_component"
    ELSE IF s <= 70 THEN "misaligned_component"
    ELSE IF s <= 90 THEN "soldering_defect"
    ELSE "unknown"

\* The defect type _analyze_region picks for a similarity s (in hundredths).
defect_type_of(s) ==
    IF s < 30 THEN "missing_component"
    ELSE IF s < 70 THEN "misaligned_component"
    ELSE IF s < 90 THEN "soldering_defect"
    ELSE "unknown"

\* analyze_region that numbers the regions from one.
analyze_region_one_based(region) ==
    IF ~region.crop.ok
    THEN None
    ELSE Some([ region_id   |-> region.id + 1,
                bbox        |-> region.bbox,
                defect_type |-> defect_type_of(region.crop.sim),
                similarity  |-> region.crop.sim,
                confidence  |-> 100 - region.crop.sim ])

\* _analyze_region: the defect record for one region, or None when the
\* similarity computation raised (the except branch returns None).
analyze_region(region) ==
    IF ~region.crop.ok
    THEN None
    ELSE Some([ region_id   |-> region.id,
                bbox        |-> region.bbox,
                defect_type |-> defect_type_of(region.crop.sim),
                similarity  |-> region.crop.sim,
                confidence  |-> 100 - region.crop.sim ])

\* calculate_severity with the misaligned test ahead of the missing test.
calculate_severity_misordered(defects) ==
    LET types == { defects[i].defect_type : i \in 1..Len(defects) }
    IN  IF Len(defects) = 0 THEN "none"
        ELSE IF "misaligned_component" \in types THEN "high"
        ELSE IF "missing_component" \in types THEN "critical"
        ELSE IF "soldering_defect" \in types THEN "medium"
        ELSE "low"

\* calculate_severity that goes by the type of the last defect alone.
calculate_severity_of_last(defects) ==
    IF Len(defects) = 0 THEN "none"
    ELSE LET t == defects[Len(defects)].defect_type
         IN  IF t = "missing_component" THEN "critical"
             ELSE IF t = "misaligned_component" THEN "high"
             ELSE IF t = "soldering_defect" THEN "medium"
             ELSE "low"

\* _calculate_severity over a sequence of defect records.
calculate_severity(defects) ==
    LET types == { defects[i].defect_type : i \in 1..Len(defects) }
    IN  IF Len(defects) = 0 THEN "none"
        ELSE IF "missing_component" \in types THEN "critical"
        ELSE IF "misaligned_component" \in types THEN "high"
        ELSE IF "soldering_defect" \in types THEN "medium"
        ELSE "low"

\* The loop of analyze_defects: regions in order, a defect appended for each
\* region whose _analyze_region returned a record.
RECURSIVE collect_defects(_)
collect_defects(rs) ==
    IF rs = << >> THEN << >>
    ELSE analyze_region(Head(rs)) \o collect_defects(Tail(rs))

\* analyze_defects(reference_img, test_img, comparison_result).
analyze_defects(rs) ==
    LET defects == collect_defects(rs)
    IN  [ defects       |-> defects,
          total_defects |-> Len(defects),
          severity      |-> calculate_severity(defects) ]

\* The regions compare_images hands over: ids 0, 1, ... in order, each with
\* the bounding box of its contour and the outcome its crop will give.
RegionSeqs ==
    UNION { [ 1..n -> CropOutcomes ] : n \in 0..MaxRegions }

MakeRegions(crops) ==
    [ i \in 1..Len(crops) |->
        [ id |-> i - 1, bbox |-> <<i, i, 20, 20>>, crop |-> crops[i] ] ]

InitDefects ==
    /\ regions = << >>
    /\ analysis = None
    /\ aligned = None
    /\ compared = None
    /\ report = None

\* compare_images returned a comparison result with these regions.
CompareImages ==
    /\ regions = << >>
    /\ analysis = None
    /\ \E crops \in RegionSeqs : regions' = MakeRegions(crops)
    /\ analysis' = None
    /\ UNCHANGED <<aligned, compared, report>>
    /\ UNCHANGED cameraVars
    /\ UNCHANGED sessionVars

\* analyze_defects is called on the current comparison result.
AnalyzeDefects ==
    /\ analysis = None
    /\ analysis' = Some(analyze_defects(regions))
    /\ UNCHANGED <<regions, aligned, compared, report>>
    /\ UNCHANGED cameraVars
    /\ UNCHANGED sessionVars

\* The defects analyze_defects recorded for the region with this id.
DefectsOfRegion(id) ==
    LET ds == analysis[1].defects
    IN  { i \in 1..Len(ds) : ds[i].region_id = id }

\* The region's crop gave similarity s and exactly one defect, of type t.
RegionGivesType(r, t) ==
    LET ds == analysis[1].defects
    IN  /\ Cardinality(DefectsOfRegion(r.id)) = 1
        /\ \A i \in DefectsOfRegion(r.id) : ds[i].defect_type = t

\* C9 (as claimed): every region's local similarity s maps to a defect by
\* fixed bands: s < 0.3 MissingComponent, 0.3 <= s < 0.7 MisalignedComponent,
\* 0.7 <= s < 0.9 SolderingDefect, and s >= 0.9 records no defect for the
\* region.
C9_BandsNoDefectAbove90 ==
    analysis # None =>
        \A k \in 1..Len(regions) :
            LET r == regions[k]
                s == r.crop.sim
            IN  r.crop.ok =>
                  /\ s < 30 => RegionGivesType(r, "missing_component")
                  /\ (30 <= s /\ s < 70) => RegionGivesType(r, "misaligned_component")
                  /\ (70 <= s /\ s < 90) => RegionGivesType(r, "soldering_defect")
                  /\ s >= 90 => DefectsOfRegion(r.id) = {}

\* C9 (amended): every region's local similarity s maps to a defect by fixed
\* bands: s < 0.3 MissingComponent, 0.3 <= s < 0.7 MisalignedComponent,
\* 0.7 <= s < 0.9 SolderingDefect, and s >= 0.9 records a defect of type
\* unknown for the region.
C9_BandsUnknownAbove90 ==
    analysis # None =>
        \A k \in 1..Len(regions) :
            LET r == regions[k]
                s == r.crop.sim
            IN  r.crop.ok =>
                  /\ s < 30 => RegionGivesType(r, "missing_component")
                  /\ (30 <= s /\ s < 70) => RegionGivesType(r, "misaligned_component")
                  /\ (70 <= s /\ s < 90) => RegionGivesType(r, "soldering_defect")
                  /\ s >= 90 => RegionGivesType(r, "unknown")

\* A finished analysis of three regions at the band edges 0.3, 0.7 and 0.9.
C9_Witness ==
    /\ analysis # None
    /\ Len(regions) = 3
    /\ regions[1].crop = [ ok |-> TRUE, sim |-> 30 ]
    /\ regions[2].crop = [ ok |-> TRUE, sim |-> 70 ]
    /\ regions[3].crop = [ ok |-> TRUE, sim |-> 90 ]
    /\ analysis[1].total_defects = 3

\* The defect types among the recorded defects.
RecordedTypes ==
    { analysis[1].defects[i].defect_type : i \in 1..Len(analysis[1].defects) }

\* C10: the severity of a set of recorded defects is that of the
\* highest-priority type present: critical if any defect is a missing
\* component, else high if any is misaligned, else medium if any is a
\* soldering defect, else low if the set is non-empty, and none exactly when
\* the set is empty.
C10_SeverityRollup ==
    analysis # None =>
        LET sev == analysis[1].severity
            n   == Len(analysis[1].defects)
        IN  /\ (sev = "critical") <=> ("missing_component" \in RecordedTypes)
            /\ (sev = "high") <=>
                  /\ "missing_component" \notin RecordedTypes
                  /\ "misaligned_component" \in RecordedTypes
            /\ (sev = "medium") <=>
                  /\ RecordedTypes \cap {"missing_component", "misaligned_component"} = {}
                  /\ "soldering_defect" \in RecordedTypes
            /\ (sev = "low") <=>
                  /\ n > 0
                  /\ RecordedTypes \subseteq {"unknown"}
            /\ (sev = "none") <=> (n = 0)
            /\ sev \in {"critical", "high", "medium", "low", "none"}

\* A finished analysis whose defects hold a misaligned component ahead of a
\* missing one, rolled up as critical.
C10_Witness ==
    /\ analysis # None
    /\ Len(analysis[1].defects) >= 2
    /\ analysis[1].defects[1].defect_type = "misaligned_component"
    /\ "missing_component" \in RecordedTypes
    /\ analysis[1].severity = "critical"

\* The severities in rising order.
SeverityRank(sev) ==
    CASE sev = "none"     -> 0
      [] sev = "low"      -> 1
      [] sev = "medium"   -> 2
      [] sev = "high"     -> 3
      [] sev = "critical" -> 4

\* The defect records _analyze_region can give for one more region.
MoreDefects ==
    { analyze_region([ id |-> Len(regions), bbox |-> <<0, 0, 20, 20>>, crop |-> c ])[1] :
        c \in { o \in CropOutcomes : o.ok } }

\* A sequence with one more element at position k (1 is the front).
InsertAt(seq, k, e) ==
    SubSeq(seq, 1, k - 1) \o << e >> \o SubSeq(seq, k, Len(seq))

\* C11: the severity rollup is monotonic: for every defect set, the set
\* with one more missing-component defect is critical, and the set with
\* any one more defect, wherever it is added, is never less severe than
\* the set was.
C11_SeverityMonotonic ==
    analysis # None =>
        LET ds == analysis[1].defects
        IN  \A d \in MoreDefects : \A k \in 1..(Len(ds) + 1) :
                /\ d.defect_type = "missing_component" =>
                        calculate_severity(InsertAt(ds, k, d)) = "critical"
                /\ SeverityRank(calculate_severity(InsertAt(ds, k, d)))
                        >= SeverityRank(calculate_severity(ds))
                /\ analysis[1].severity = calculate_severity(ds)

\* A finished analysis whose defects are a missing component and then a
\* soldering defect: critical, and the least severe last.
C11_Witness ==
    /\ analysis # None
    /\ Len(analysis[1].defects) = 2
    /\ analysis[1].defects[1].defect_type = "missing_component"
    /\ analysis[1].defects[2].defect_type = "soldering_defect"
    /\ analysis[1].severity = "critical"

\* C12: every defect analyze_defects returns has the id and the bounding
\* box of a region of interest of the comparison result it was called on;
\* no region has more than one defect, and there is no defect without its
\* region.
C12_DefectsReferToRegions ==
    analysis # None =>
        LET ds == analysis[1].defects
        IN  /\ \A i \in 1..Len(ds) :
                \E k \in 1..Len(regions) :
                    /\ regions[k].id = ds[i].region_id
                    /\ regions[k].bbox = ds[i].bbox
            /\ \A k \in 1..Len(regions) :
                Cardinality(DefectsOfRegion(regions[k].id)) <= 1
            /\ Len(ds) <= Len(regions)
            /\ analysis[1].total_defects = Len(ds)

\* A finished analysis of three regions, the crop of the second of which
\* could not be compared: two defects, of the first and the third region.
C12_Witness ==
    /\ analysis # None
    /\ Len(regions) = 3
    /\ ~regions[2].crop.ok
    /\ Len(analysis[1].defects) = 2
    /\ analysis[1].defects[2].region_id = regions[3].id

(***************************************************************************)
(* inspector.py: align_images                                              *)
(***************************************************************************)

\* The descriptors of the reference image the model goes up to.
MaxDescriptors == 5

\* What knnMatch(ref_des, test_des, k=2) gives for one reference descriptor:
\* the distances of its nearest and second nearest test descriptor, or of
\* the nearest alone when the test image has one descriptor.  3 against 4 is
\* the ratio 0.75 itself.
MatchPairs == { <<2, 4>>, <<3, 4>>, <<4, 4>>, <<3>> }

MatchSeqs == UNION { [ 1..n -> MatchPairs ] : n \in 0..MaxDescriptors }

\* Lowe's ratio test of align_images.
passes_ratio_test(pair) == Len(pair) = 2 /\ pair[1] * 100 < 75 * pair[2]

good_matches(matches) == SelectSeq(matches, passes_ratio_test)

\* What one call of align_images can meet: can the images be converted to
\* grayscale, how many descriptors has each, what are the matches, and what
\* does findHomography give for the good ones (None, or a matrix and the
\* number of matches its mask keeps as inliers).
AlignInputs ==
    { i \in [ convertible : BOOLEAN,
              ref_des     : 0..MaxDescriptors,
              test_des    : {0, 1, MaxDescriptors},
              matches     : MatchSeqs,
              homography  : {None} \cup { Some(n) : n \in 4..MaxDescriptors } ] :
        /\ ~i.convertible => (i.ref_des = 0 /\ i.test_des = 0)
        /\ Len(i.matches) = IF i.ref_des > 0 /\ i.test_des > 0 THEN i.ref_des ELSE 0
        /\ \A k \in 1..Len(i.matches) :
                Len(i.matches[k]) = IF i.test_des = 1 THEN 1 ELSE 2
        /\ i.homography # None =>
                /\ Len(good_matches(i.matches)) >= 4
                /\ i.homography[1] <= Len(good_matches(i.matches)) }

AlignFailure(error) ==
    [ image |-> "test_img",
      info  |-> [ success |-> FALSE, error |-> error, matches_count |-> 0 ] ]

\* align_images that asks for more than four good matches.
align_images_above_four(i) ==
    IF ~i.convertible THEN AlignFailure("exception")
    ELSE IF i.ref_des = 0 \/ i.test_des = 0 THEN AlignFailure("No features detected")
    ELSE IF Len(good_matches(i.matches)) <= 4 THEN AlignFailure("Insufficient matches")
    ELSE IF i.homography = None THEN AlignFailure("Homography computation failed")
    ELSE [ image |-> "aligned_img",
           info  |-> [ success |-> TRUE, error |-> "",
                       matches_count |-> Len(good_matches(i.matches)) ] ]

\* align_images that reports the inliers of the homography.
align_images_counting_inliers(i) ==
    IF ~i.convertible THEN AlignFailure("exception")
    ELSE IF i.ref_des = 0 \/ i.test_des = 0 THEN AlignFailure("No features detected")
    ELSE IF Len(good_matches(i.matches)) < 4 THEN AlignFailure("Insufficient matches")
    ELSE IF i.homography = None THEN AlignFailure("Homography computation failed")
    ELSE [ image |-> "aligned_img",
           info  |-> [ success |-> TRUE, error |-> "",
                       matches_count |-> i.homography[1] ] ]

\* align_images: the image it returns (the test image it was given, or the
\* warped one) and alignment_info.  An exception inside is caught and
\* returned as an error with the test image.
align_images(i) ==
    IF ~i.convertible THEN AlignFailure("exception")
    ELSE IF i.ref_des = 0 \/ i.test_des = 0 THEN AlignFailure("No features detected")
    ELSE IF Len(good_matches(i.matches)) < 4 THEN AlignFailure("Insufficient matches")
    ELSE IF i.homography = None THEN AlignFailure("Homography computation failed")
    ELSE [ image |-> "aligned_img",
           info  |-> [ success |-> TRUE, error |-> "",
                       matches_count |-> Len(good_matches(i.matches)) ] ]

\* align_images is called.
AlignImages ==
    /\ aligned = None
    /\ \E i \in AlignInputs :
        aligned' = Some([ input |-> i, result |-> align_images(i) ])
    /\ UNCHANGED <<regions, analysis, compared, report>>
    /\ UNCHANGED cameraVars
    /\ UNCHANGED sessionVars

\* The matches of the call that the ratio 0.75 lets through.
RatioPassers ==
    { k \in 1..Len(aligned[1].input.matches) :
        LET pair == aligned[1].input.matches[k]
        IN  Len(pair) = 2 /\ 4 * pair[1] < 3 * pair[2] }

\* C13: align_images fails with No features detected when either image has
\* no descriptors, otherwise with Insufficient matches when fewer than 4
\* matches pass the 0.75 ratio test, otherwise with Homography computation
\* failed when no homography is found; on a failure it returns the test
\* image it was given and no success; it reports success exactly when none
\* of the three applies (and nothing raised inside).
C13_AlignFailureOrder ==
    aligned # None =>
        LET i       == aligned[1].input
            out     == aligned[1].result
            nofeat  == i.ref_des = 0 \/ i.test_des = 0
            few     == Cardinality(RatioPassers) < 4
            nohom   == i.homography = None
        IN  /\ i.convertible =>
                /\ (out.info.error = "No features detected") <=> nofeat
                /\ (out.info.error = "Insufficient matches") <=> (~nofeat /\ few)
                /\ (out.info.error = "Homography computation failed")
                        <=> (~nofeat /\ ~few /\ nohom)
                /\ out.info.success <=> (~nofeat /\ ~few /\ ~nohom)
            /\ ~i.convertible => ~out.info.success
            /\ ~out.info.success => out.image = "test_img"
            /\ out.info.success => (out.image = "aligned_img" /\ out.info.error = "")

\* Calls with exactly four good matches: one that found a homography and
\* succeeded (C13_Witness), and the failures are reached as well.
C13_Witness ==
    /\ aligned # None
    /\ aligned[1].input.ref_des = 5
    /\ Cardinality(RatioPassers) = 4
    /\ \E k \in 1..5 : aligned[1].input.matches[k] = <<3, 4>>
    /\ aligned[1].result.info.success

\* C20 as stated: on success the reported match count is the number of good
\* matches RANSAC kept as inliers.
C20_CountIsInliers ==
    (aligned # None /\ aligned[1].result.info.success) =>
        aligned[1].result.info.matches_count = aligned[1].input.homography[1]

\* C20: on success the reported match count is the number of matches that
\* passed the ratio test, whatever number of them the RANSAC mask of
\* findHomography keeps as inliers.
C20_CountIsRatioPassers ==
    (aligned # None /\ aligned[1].result.info.success) =>
        aligned[1].result.info.matches_count = Cardinality(RatioPassers)

\* A successful alignment where RANSAC kept fewer matches than the ratio
\* test let through.
C20_Witness ==
    /\ aligned # None
    /\ aligned[1].result.info.success
    /\ aligned[1].input.homography[1] < Cardinality(RatioPassers)

(***************************************************************************)
(* Exact rationals <<n, d>>, d > 0, in lowest terms: the model's floats     *)
(***************************************************************************)
Abs(x) == IF x < 0 THEN -x ELSE x

RECURSIVE GCD(_, _)
GCD(a, b) == IF b = 0 THEN a ELSE GCD(b, a % b)

\* n / d in lowest terms with a positive denominator (d # 0).
Rat(n, d) ==
    LET g == GCD(Abs(n), Abs(d))
        sgn == IF d < 0 THEN -1 ELSE 1
    IN  << sgn * (n \div g), sgn * (d \div g) >>

RatLess(a, b) == a[1] * b[2] < b[1] * a[2]
RatLeq(a, b) == a[1] * b[2] <= b[1] * a[2]
RatMin(a, b) == IF RatLess(b, a) THEN b ELSE a      \* Python's min(a, b)
RatMax(a, b) == IF RatLess(a, b) THEN b ELSE a      \* Python's max(a, b)
RatMul(a, b) == Rat(a[1] * b[1], a[2] * b[2])
RatDiv(a, b) == Rat(a[1] * b[2], a[2] * b[1])       \* b # 0

\* Python's int(x / z) for an integer x >= 0 and a rational z > 0.
IntDiv(x, z) == (x * z[2]) \div z[1]

(***************************************************************************)
(* camera.py: CameraManager                                                *)
(***************************************************************************)
min_zoom == <<1, 2>>        \* self.min_zoom = 0.5
max_zoom == <<4, 1>>        \* self.max_zoom = 4.0
One == <<1, 1>>             \* 1.0
margin == <<1, 10>>         \* margin = 0.1 in auto_zoom_to_board
min_board_area == 10000     \* self.min_board_area

\* The largest numerator or denominator of a zoom level the model follows.
MaxTerm == 44

InTerms(z) == Abs(z[1]) <= MaxTerm /\ z[2] <= MaxTerm

\* The frame sizes a capture device delivers (width, height).
FrameSizes == { <<640, 480>>, <<1920, 1080>> }

\* The zoom levels callers ask set_zoom for, inside and outside the range.
ZoomRequests ==
    { <<-1, 1>>, <<1, 4>>, <<1, 2>>, <<3, 4>>, <<1, 1>>, <<5, 2>>, <<4, 1>>, <<5, 1>> }

\* The factors callers give zoom_in and zoom_out (1.2 is the default).
ZoomFactors == { <<6, 5>>, <<0, 1>>, <<-2, 1>> }

\* The bounding boxes <<x, y, w, h>> detect_board can return for a frame of
\* size w x h: inside the frame, at least min_board_area large, with an
\* aspect ratio within [0.5, 2.0].
BoardBoxes(w, h) ==
    { <<0, 0, w \div a, h \div b>> : a \in {1, 2, 4}, b \in {1, 2, 4} }
    \cup { <<w \div 2, h \div 2, w \div 2, h \div 2>>, <<10, 10, 200, 100>> }

DetectableBoxes(w, h) ==
    { b \in BoardBoxes(w, h) :
        /\ b[3] * b[4] >= min_board_area
        /\ b[3] * 2 >= b[4]
        /\ b[3] <= 2 * b[4] }

\* clamp_zoom without its lower bound.
clamp_zoom_upper_only(z) == RatMin(max_zoom, z)

\* The clamp of set_zoom: max(min_zoom, min(max_zoom, z)).
clamp_zoom(z) == RatMax(min_zoom, RatMin(max_zoom, z))

\* Python's slice start:stop on an axis of length n: negative indices count
\* from the end, and both ends are cut to the axis. The result is the pair
\* <<first, past-the-last>>, empty when first >= past-the-last.
slice_index(i, n) ==
    IF i < 0 THEN (IF i + n < 0 THEN 0 ELSE i + n)
    ELSE (IF i > n THEN n ELSE i)

py_slice(start, stop, n) == << slice_index(start, n), slice_index(stop, n) >>

slice_len(sl) == IF sl[2] > sl[1] THEN sl[2] - sl[1] ELSE 0

\* resize that leaves the crop at its own size (the resize step dropped).
resize_dropped(crop_w, crop_h, w, h) ==
    IF crop_w = 0 \/ crop_h = 0
    THEN [ ok |-> FALSE, w |-> 0, h |-> 0 ]
    ELSE [ ok |-> TRUE, w |-> crop_w, h |-> crop_h ]

\* cv2.resize(cropped, (w, h)): the size of the image it returns; it raises
\* on an empty source image, shown as ok = FALSE.
resize(crop_w, crop_h, w, h) ==
    IF crop_w = 0 \/ crop_h = 0
    THEN [ ok |-> FALSE, w |-> 0, h |-> 0 ]
    ELSE [ ok |-> TRUE, w |-> w, h |-> h ]

\* _apply_zoom(frame) at zoom level z on a frame of size w x h: the columns
\* and rows it crops, and the size of the image it returns.
apply_zoom(w, h, z) ==
    IF z = One
    THEN [ ok |-> TRUE, w |-> w, h |-> h, cols |-> <<0, w>>, rows |-> <<0, h>> ]
    ELSE LET crop_w == IntDiv(w, z)
             crop_h == IntDiv(h, z)
             x1 == (w - crop_w) \div 2
             y1 == (h - crop_h) \div 2
             x2 == x1 + crop_w
             y2 == y1 + crop_h
             cols == py_slice(x1, x2, w)
             rows == py_slice(y1, y2, h)
             out == resize(slice_len(cols), slice_len(rows), w, h)
         IN  [ ok |-> out.ok, w |-> out.w, h |-> out.h, cols |-> cols, rows |-> rows ]

\* target_zoom with max for min: the zoom that fits the looser axis.
target_zoom_loosest(w, h, board_w, board_h) ==
    RatMax( Rat(w * margin[2], board_w * (margin[2] + margin[1])),
            Rat(h * margin[2], board_h * (margin[2] + margin[1])) )

\* The target zoom of auto_zoom_to_board:
\* min(w / (board_w * (1 + margin)), h / (board_h * (1 + margin))).
target_zoom(w, h, board_w, board_h) ==
    RatMin( Rat(w * margin[2], board_w * (margin[2] + margin[1])),
            Rat(h * margin[2], board_h * (margin[2] + margin[1])) )

\* A call record: the method, whether the camera was connected when it was
\* called, the zoom level before it, the zoom level it was asked for (None
\* when it asked for none), the frame size and board box it was given (None
\* when it was given none) and what it returned.
CallWith(name, request, arg, ret) ==
    [ name |-> name, connected |-> is_connected, before |-> zoom_level,
      request |-> request, arg |-> arg, ret |-> ret ]

Call(name, request, ret) == CallWith(name, request, None, ret)

InitCamera ==
    /\ is_connected = FALSE
    /\ zoom_level = One
    /\ cap = None
    /\ frame = None
    /\ call = [ name |-> "__init__", connected |-> FALSE, before |-> One,
                request |-> None, arg |-> None, ret |-> "None" ]
    /\ auto_focus = TRUE
    /\ focus_distance = <<1, 2>>
    /\ detected = None
    /\ scene = None

\* connect(): a new VideoCapture; it opens or not. The device delivers one
\* frame size and either has a zoom property or has none.
Connect ==
    /\ \E opened \in BOOLEAN, size \in FrameSizes, hw \in BOOLEAN :
          /\ cap' = Some([ opened |-> opened, w |-> size[1], h |-> size[2],
                           hw_zoom |-> hw, zoom_prop |-> One ])
          /\ is_connected' = IF opened THEN TRUE ELSE is_connected
          /\ call' = Call("connect", None, IF opened THEN "True" ELSE "False")
    /\ frame' = None
    /\ UNCHANGED zoom_level
    /\ UNCHANGED focusVars
    /\ UNCHANGED <<detected, scene>>
    /\ UNCHANGED defectVars
    /\ UNCHANGED sessionVars

\* disconnect(): the device is released, the object is kept.
Disconnect ==
    /\ cap' = IF cap = None THEN None
              ELSE Some([ cap[1] EXCEPT !.opened = FALSE ])
    /\ is_connected' = FALSE
    /\ call' = Call("disconnect", None, "None")
    /\ frame' = None
    /\ UNCHANGED zoom_level
    /\ UNCHANGED focusVars
    /\ UNCHANGED <<detected, scene>>
    /\ UNCHANGED defectVars
    /\ UNCHANGED sessionVars

\* What cap.set(cv2.CAP_PROP_ZOOM, z) leaves in the device: a device with a
\* zoom property takes the value or refuses it, a device without ignores it.
DeviceAfterZoom(z) ==
    IF cap[1].hw_zoom /\ cap[1].opened
    THEN { cap, Some([ cap[1] EXCEPT !.zoom_prop = z ]) }
    ELSE { cap }

\* The body of set_zoom(z), shared by every method that calls it.
set_zoom(name, z) ==
    IF ~is_connected
    THEN /\ call' = Call(name, Some(z), "False")
         /\ UNCHANGED <<zoom_level, cap>>
    ELSE /\ zoom_level' = clamp_zoom(z)
         /\ cap' \in DeviceAfterZoom(clamp_zoom(z))
         /\ call' = Call(name, Some(z), "True")

SetZoom ==
    /\ \E z \in ZoomRequests : set_zoom("set_zoom", z)
    /\ frame' = None
    /\ UNCHANGED is_connected
    /\ UNCHANGED focusVars
    /\ UNCHANGED <<detected, scene>>
    /\ UNCHANGED defectVars
    /\ UNCHANGED sessionVars

\* zoom_in(factor): set_zoom(zoom_level * factor).
ZoomIn ==
    /\ \E f \in ZoomFactors :
          /\ InTerms(RatMul(zoom_level, f))
          /\ set_zoom("zoom_in", RatMul(zoom_level, f))
    /\ frame' = None
    /\ UNCHANGED is_connected
    /\ UNCHANGED focusVars
    /\ UNCHANGED <<detected, scene>>
    /\ UNCHANGED defectVars
    /\ UNCHANGED sessionVars

\* zoom_out(factor): set_zoom(zoom_level / factor); a factor of 0 raises
\* ZeroDivisionError before set_zoom is reached.
ZoomOut ==
    /\ \E f \in ZoomFactors :
          IF f[1] = 0
          THEN /\ call' = Call("zoom_out", None, "raised")
               /\ UNCHANGED <<zoom_level, cap>>
          ELSE /\ InTerms(RatDiv(zoom_level, f))
               /\ set_zoom("zoom_out", RatDiv(zoom_level, f))
    /\ frame' = None
    /\ UNCHANGED is_connected
    /\ UNCHANGED focusVars
    /\ UNCHANGED <<detected, scene>>
    /\ UNCHANGED defectVars
    /\ UNCHANGED sessionVars

\* reset_zoom(): set_zoom(1.0).
ResetZoom ==
    /\ set_zoom("reset_zoom", One)
    /\ frame' = None
    /\ UNCHANGED is_connected
    /\ UNCHANGED focusVars
    /\ UNCHANGED <<detected, scene>>
    /\ UNCHANGED defectVars
    /\ UNCHANGED sessionVars

\* The frame record: its size, the size of the frame it was cut from, the
\* columns and rows cut, the magnification the device itself applied, and
\* the bounding box detect_board finds in it (None when it finds no board).
Frame(z, src_w, src_h, hw_mag, board) ==
    LET a == apply_zoom(src_w, src_h, z)
    IN  [ ok |-> a.ok, w |-> a.w, h |-> a.h, src_w |-> src_w, src_h |-> src_h,
          cols |-> a.cols, rows |-> a.rows, zoom |-> z, hw_mag |-> hw_mag,
          board |-> board ]

\* get_frame(): None without a connection or when the read fails, else the
\* device's frame, passed through _apply_zoom when zoom_level # 1.0.
GetFrame ==
    /\ IF ~is_connected \/ cap = None
       THEN /\ frame' = None
            /\ call' = Call("get_frame", None, "None")
       ELSE \E ret \in (IF cap[1].opened THEN BOOLEAN ELSE {FALSE}) :
              IF ~ret
              THEN /\ frame' = None
                   /\ call' = Call("get_frame", None, "None")
              ELSE \E board \in { None } \cup
                          { Some(b) : b \in DetectableBoxes(cap[1].w, cap[1].h) } :
                     LET f == Frame(zoom_level, cap[1].w, cap[1].h,
                                    cap[1].zoom_prop, board)
                     IN  IF f.ok
                         THEN /\ frame' = Some(f)
                              /\ call' = Call("get_frame", None, "frame")
                         ELSE /\ frame' = None
                              /\ call' = Call("get_frame", None, "raised")
    /\ UNCHANGED <<is_connected, zoom_level, cap>>
    /\ UNCHANGED focusVars
    /\ UNCHANGED <<detected, scene>>
    /\ UNCHANGED defectVars
    /\ UNCHANGED sessionVars

\* auto_zoom_to_board(frame) on the frame last polled: None when detect_board
\* finds no board; else set_zoom(target_zoom) and the frame passed through
\* _apply_zoom (None when that raises).
AutoZoomToBoard ==
    /\ frame # None
    /\ LET f == frame[1]
       IN  IF f.board = None
           THEN /\ call' = Call("auto_zoom_to_board", None, "None")
                /\ UNCHANGED <<zoom_level, cap, frame>>
           ELSE LET b == f.board[1]
                    t == target_zoom(f.w, f.h, b[3], b[4])
                    z == IF is_connected THEN clamp_zoom(t) ELSE zoom_level
                    g == Frame(z, f.w, f.h, f.hw_mag, f.board)
                IN  /\ InTerms(z)
                    /\ zoom_level' = z
                    /\ cap' \in (IF is_connected THEN DeviceAfterZoom(z) ELSE {cap})
                    /\ frame' = IF g.ok THEN Some(g) ELSE None
                    /\ call' = CallWith("auto_zoom_to_board", Some(t),
                                         Some(<<f.w, f.h, b[3], b[4]>>),
                                         IF g.ok THEN "frame" ELSE "None")
    /\ UNCHANGED is_connected
    /\ UNCHANGED focusVars
    /\ UNCHANGED <<detected, scene>>
    /\ UNCHANGED defectVars
    /\ UNCHANGED sessionVars

(***************************************************************************)
\* The focus distances callers ask set_focus for, inside and outside 0..1.
FocusRequests == { <<-1, 1>>, <<1, 4>>, <<1, 1>>, <<2, 1>> }

\* What the device does when asked for its focus or autofocus property: it
\* answers -1 (the control is not there), it answers a value, or the call
\* raises.
DeviceAnswers == { "unsupported", "value", "raises" }

\* set_focus without its try: what the device raises leaves the method.
set_focus_unguarded(d, answer) ==
    IF ~is_connected
    THEN /\ call' = CallWith("set_focus", None, Some(<<d, answer>>), "False")
         /\ UNCHANGED focusVars
    ELSE /\ focus_distance' = RatMax(<<0, 1>>, RatMin(One, d))
         /\ auto_focus' = IF answer = "value" THEN FALSE ELSE auto_focus
         /\ call' = CallWith("set_focus", None, Some(<<d, answer>>),
                              IF answer = "value" THEN "True"
                              ELSE IF answer = "raises" THEN "raised" ELSE "False")

\* set_focus(focus_distance) on a device that gives this answer.
set_focus(d, answer) ==
    IF ~is_connected
    THEN /\ call' = CallWith("set_focus", None, Some(<<d, answer>>), "False")
         /\ UNCHANGED focusVars
    ELSE /\ focus_distance' = RatMax(<<0, 1>>, RatMin(One, d))
         /\ auto_focus' = IF answer = "value" THEN FALSE ELSE auto_focus
         /\ call' = CallWith("set_focus", None, Some(<<d, answer>>),
                              IF answer = "value" THEN "True" ELSE "False")

SetFocus ==
    /\ \E d \in FocusRequests, answer \in DeviceAnswers : set_focus(d, answer)
    /\ frame' = None
    /\ UNCHANGED <<is_connected, zoom_level, cap>>
    /\ UNCHANGED <<detected, scene>>
    /\ UNCHANGED defectVars
    /\ UNCHANGED sessionVars

\* set_auto_focus(enabled) on a device that gives this answer.
set_auto_focus(enabled, answer) ==
    IF ~is_connected
    THEN /\ call' = CallWith("set_auto_focus", None, Some(<<enabled, answer>>), "False")
         /\ UNCHANGED focusVars
    ELSE /\ auto_focus' = enabled
         /\ UNCHANGED focus_distance
         /\ call' = CallWith("set_auto_focus", None, Some(<<enabled, answer>>),
                              IF answer = "value" THEN "True" ELSE "False")

SetAutoFocus ==
    /\ \E enabled \in BOOLEAN, answer \in DeviceAnswers : set_auto_focus(enabled, answer)
    /\ frame' = None
    /\ UNCHANGED <<is_connected, zoom_level, cap>>
    /\ UNCHANGED <<detected, scene>>
    /\ UNCHANGED defectVars
    /\ UNCHANGED sessionVars

(***************************************************************************)
(* camera.py: detect_board                                                 *)
(***************************************************************************)

\* The contours in one frame that the model goes up to.
MaxContours == 2

RatAdd(a, b) == Rat(a[1] * b[2] + b[1] * a[2], a[2] * b[2])

\* A contour as detect_board sees it: contourArea, the vertices of its
\* approximated polygon, the width and height of its bounding rectangle and
\* arcLength.
Contour(area, vertices, w, h, arc) ==
    [ area |-> area, vertices |-> vertices, w |-> w, h |-> h, arc |-> arc ]

Contours ==
    { Contour(20000, 4, 200, 100, 600),  Contour(50000, 4, 250, 200, 900),
      Contour(15000, 5, 200, 100, 700),  Contour(10000, 4, 100, 100, 400),
      Contour(12500, 6, 125, 100, 450),  Contour(50000, 7, 250, 200, 900),
      Contour(30000, 3, 300, 200, 900),  Contour(50000, 4, 400, 200, 1200),
      Contour(50000, 4, 500, 200, 1400), Contour(5000, 4, 100, 50, 300),
      Contour(20000, 4, 100, 200, 600),  Contour(20000, 4, 100, 250, 700) }

ContourSeqs == UNION { [ 1..n -> Contours ] : n \in 0..MaxContours }

\* min_board_area and board_confidence_threshold: the values of __init__
\* and two of the settings test_board_detection tries.
DetectionSettings ==
    { [ min_board_area |-> min_board_area, board_confidence_threshold |-> <<7, 10>> ],
      [ min_board_area |-> 5000,  board_confidence_threshold |-> <<1, 2>> ],
      [ min_board_area |-> 20000, board_confidence_threshold |-> <<1, 2>> ] }

board_detection_enabled == TRUE

\* aspect_ratio = w / h if h > 0 else 0.
aspect_ratio(c) == IF c.h > 0 THEN Rat(c.w, c.h) ELSE <<0, 1>>

\* The confidence of a candidate:
\* area_factor * 0.4 + shape_factor * 0.3 + edge_factor * 0.3.
confidence(c) ==
    LET area_factor  == RatMin(One, Rat(c.area, 50000))
        shape_factor == IF c.w * c.h > 0 THEN Rat(c.area, c.w * c.h) ELSE <<0, 1>>
        edge_factor  == IF c.arc > 0 THEN RatMin(One, Rat(c.area, c.arc * 10))
                        ELSE <<0, 1>>
    IN  RatAdd(RatAdd(RatMul(area_factor, <<2, 5>>), RatMul(shape_factor, <<3, 10>>)),
               RatMul(edge_factor, <<3, 10>>))

\* The filters of the loop over the contours.
is_candidate(c, settings) ==
    /\ ~(c.area < settings.min_board_area)
    /\ 4 <= c.vertices /\ c.vertices <= 6
    /\ RatLeq(<<1, 2>>, aspect_ratio(c)) /\ RatLeq(aspect_ratio(c), <<2, 1>>)

Candidate(c) ==
    [ contour |-> c, bbox |-> <<0, 0, c.w, c.h>>, area |-> c.area,
      aspect_ratio |-> aspect_ratio(c), confidence |-> confidence(c) ]

\* board_candidates, in the order of the contours.
RECURSIVE board_candidates(_, _)
board_candidates(contours, settings) ==
    IF contours = << >> THEN << >>
    ELSE (IF is_candidate(Head(contours), settings)
          THEN << Candidate(Head(contours)) >> ELSE << >>)
         \o board_candidates(Tail(contours), settings)

\* The first candidate, whatever its confidence.
first_candidate(candidates) == candidates[1]

\* max(board_candidates, key=lambda x: x["confidence"]): the first of the
\* candidates with the highest confidence.
best_candidate(candidates) ==
    candidates[ CHOOSE i \in 1..Len(candidates) :
                  \A j \in 1..Len(candidates) :
                     /\ j < i => RatLess(candidates[j].confidence, candidates[i].confidence)
                     /\ j > i => RatLeq(candidates[j].confidence, candidates[i].confidence) ]

\* detect_board(frame) on a frame with these contours; readable is FALSE
\* when an OpenCV call raises on the frame, which gives None.
detect_board(readable, contours, settings) ==
    IF ~board_detection_enabled THEN None
    ELSE IF ~readable THEN None
    ELSE LET candidates == board_candidates(contours, settings)
         IN  IF candidates # << >>
                /\ RatLeq(settings.board_confidence_threshold,
                          best_candidate(candidates).confidence)
             THEN Some(best_candidate(candidates))
             ELSE None

\* detect_board is called on a frame, with the settings of the camera.
DetectBoard ==
    /\ detected = None
    /\ \E readable \in BOOLEAN, contours \in ContourSeqs, settings \in DetectionSettings :
          /\ readable \/ contours = << >>
          /\ detected' = Some([ readable |-> readable, contours |-> contours,
                                settings |-> settings,
                                result   |-> detect_board(readable, contours, settings) ])
    /\ UNCHANGED <<is_connected, zoom_level, cap, frame, call>>
    /\ UNCHANGED focusVars
    /\ UNCHANGED scene
    /\ UNCHANGED defectVars
    /\ UNCHANGED sessionVars

(***************************************************************************)
(* camera.py: get_frame and auto_zoom_to_board on a board that lies still  *)
(***************************************************************************)

\* The boards laid before the camera: width and height in the pixels of an
\* unzoomed frame.  The board lies in the middle of the view.
SceneBoards == { <<100, 100>>, <<200, 200>>, <<160, 120>>, <<320, 240>> }

\* One axis of the board as a frame shows it: the board covers b pixels in
\* the middle of n, the device magnifies it hw times about the middle, and
\* the frame is the interval cut of the n pixels, resized back to n.  The
\* result is <<first, length>> in the frame, the length 0 when the cut
\* misses the board.
SeenOnAxis(b, n, hw, cut) ==
    LET wide  == IF (b * hw[1]) \div hw[2] > n THEN n ELSE (b * hw[1]) \div hw[2]
        b1    == (n - wide) \div 2
        b2    == b1 + wide
        i1    == IF b1 > cut[1] THEN b1 ELSE cut[1]
        i2    == IF b2 < cut[2] THEN b2 ELSE cut[2]
        len   == cut[2] - cut[1]
    IN  IF i2 <= i1 \/ len <= 0 THEN <<0, 0>>
        ELSE << ((i1 - cut[1]) * n) \div len, ((i2 - i1) * n) \div len >>

\* The bounding box detect_board finds in a frame of the board that lies
\* still, polled at zoom z from a device of size w x h that magnifies hw
\* times: None when what the frame shows of the board fails the filters on
\* area and aspect ratio.
SeenBoard(w, h, z, hw) ==
    LET a  == apply_zoom(w, h, z)
        sx == SeenOnAxis(scene[1][1], w, hw, a.cols)
        sy == SeenOnAxis(scene[1][2], h, hw, a.rows)
    IN  IF /\ sx[2] * sy[2] >= min_board_area
           /\ sx[2] * 2 >= sy[2]
           /\ sx[2] <= 2 * sy[2]
        THEN Some(<<sx[1], sy[1], sx[2], sy[2]>>)
        ELSE None

\* A board is laid before a connected camera and left there.
PlaceBoard ==
    /\ scene = None
    /\ is_connected
    /\ \E b \in SceneBoards : scene' = Some(b)
    /\ frame' = None
    /\ UNCHANGED <<is_connected, zoom_level, cap, call>>
    /\ UNCHANGED focusVars
    /\ UNCHANGED detected
    /\ UNCHANGED defectVars
    /\ UNCHANGED sessionVars

\* get_frame() with the board lying still before the camera.
GetFrameOfBoard ==
    /\ scene # None
    /\ is_connected
    /\ cap[1].opened
    /\ LET f == Frame(zoom_level, cap[1].w, cap[1].h, cap[1].zoom_prop,
                      SeenBoard(cap[1].w, cap[1].h, zoom_level, cap[1].zoom_prop))
       IN  IF f.ok
           THEN /\ frame' = Some(f)
                /\ call' = Call("get_frame", None, "frame")
           ELSE /\ frame' = None
                /\ call' = Call("get_frame", None, "raised")
    /\ UNCHANGED <<is_connected, zoom_level, cap>>
    /\ UNCHANGED focusVars
    /\ UNCHANGED <<detected, scene>>
    /\ UNCHANGED defectVars
    /\ UNCHANGED sessionVars

(* Claims about the camera session                                         *)
(***************************************************************************)
ZoomCallNames == {"set_zoom", "zoom_in", "zoom_out", "reset_zoom"}

InZoomRange(z) == RatLeq(min_zoom, z) /\ RatLeq(z, max_zoom)

\* The bound of the zoom range nearest to an out-of-range request.
NearestBound(z) == IF RatLess(z, min_zoom) THEN min_zoom ELSE max_zoom

\* C5 (as claimed): after any sequence of set_zoom, zoom_in, zoom_out,
\* reset_zoom and auto_zoom_to_board calls with any arguments, zoom_level
\* lies in [min_zoom, max_zoom]; a request below or above the range saturates
\* at the nearest bound and is reported as success, not as an error.
C5_SaturatesAndSucceeds ==
    /\ InZoomRange(zoom_level)
    /\ (call.request # None /\ ~InZoomRange(call.request[1])) =>
          /\ zoom_level = NearestBound(call.request[1])
          /\ call.name \in ZoomCallNames => call.ret = "True"

\* C5 (amended): zoom_level always lies in [min_zoom, max_zoom]; on a
\* connected camera a request below or above the range saturates at the
\* nearest bound, a request inside it is taken as it is, and set_zoom, zoom_in,
\* zoom_out and reset_zoom report success; on a camera that is not connected
\* every request leaves zoom_level as it was and set_zoom, zoom_in, zoom_out
\* and reset_zoom return False.
C5_ConnectedSaturates ==
    /\ InZoomRange(zoom_level)
    /\ call.request # None =>
          IF call.connected
          THEN /\ zoom_level = IF InZoomRange(call.request[1])
                               THEN call.request[1]
                               ELSE NearestBound(call.request[1])
               /\ call.name \in ZoomCallNames => call.ret = "True"
          ELSE /\ zoom_level = call.before
               /\ call.name \in ZoomCallNames => call.ret = "False"

\* A connected camera asked for a zoom below the range, from a zoom above 1.
C5_Witness ==
    /\ call.name = "set_zoom"
    /\ call.connected
    /\ call.request = Some(<<-1, 1>>)
    /\ RatLess(One, call.before)
    /\ zoom_level = min_zoom
    /\ call.ret = "True"

\* C6: for every zoom level in [0.5, 4.0] and every frame size a device
\* delivers, _apply_zoom returns an image whose width and height equal those
\* of the input frame, and the crop rectangle it resizes from is never empty
\* (so neither get_frame nor auto_zoom_to_board fails in _apply_zoom).
C6_ZoomKeepsFrameSize ==
    /\ frame # None =>
          /\ InZoomRange(frame[1].zoom)
          /\ frame[1].w = frame[1].src_w
          /\ frame[1].h = frame[1].src_h
          /\ slice_len(frame[1].cols) > 0
          /\ slice_len(frame[1].rows) > 0
    /\ call.name = "get_frame" => call.ret # "raised"
    /\ (call.name = "auto_zoom_to_board" /\ call.arg # None) => call.ret = "frame"

\* A frame polled at zoom 0.5, where the crop asked for is twice the frame.
C6_Witness ==
    /\ call.name = "get_frame"
    /\ frame # None
    /\ frame[1].zoom = min_zoom
    /\ frame[1].w = 1920
    /\ slice_len(frame[1].cols) < frame[1].src_w

\* The box of size bw x bh, enlarged by the margin and magnified z times,
\* fits a frame of size w x h in both axes: bw * (1 + margin) * z <= w and
\* bh * (1 + margin) * z <= h.
Fits(z, w, h, bw, bh) ==
    /\ z[1] * bw * 11 <= w * 10 * z[2]
    /\ z[1] * bh * 11 <= h * 10 * z[2]

\* Zoom levels to try against the one auto_zoom_to_board chose.
ZoomProbes == ZoomRequests \cup { RatMul(zoom_level, <<101, 100>>) }

\* C7: for a connected camera and a detected board whose bounding box lies
\* inside the frame, auto_zoom_to_board sets zoom_level to
\* min(w_frame/(w_box*(1+margin)), h_frame/(h_box*(1+margin))) with margin
\* 0.1, clamped to [0.5, 4.0]; at the resulting zoom the box enlarged by the
\* margin still fits the frame in both axes, and no larger zoom within the
\* range does.
C7_AutoZoomLargestFit ==
    (call.name = "auto_zoom_to_board" /\ call.connected /\ call.arg # None) =>
        LET w  == call.arg[1][1]
            h  == call.arg[1][2]
            bw == call.arg[1][3]
            bh == call.arg[1][4]
            tw == Rat(w * 10, bw * 11)
            th == Rat(h * 10, bh * 11)
            t  == IF RatLess(th, tw) THEN th ELSE tw
        IN  /\ zoom_level = (IF RatLess(max_zoom, t) THEN max_zoom
                             ELSE IF RatLess(t, min_zoom) THEN min_zoom ELSE t)
            /\ Fits(zoom_level, w, h, bw, bh)
            /\ \A z \in ZoomProbes :
                  (RatLess(zoom_level, z) /\ RatLeq(z, max_zoom)) => ~Fits(z, w, h, bw, bh)

\* An auto-zoom on a connected camera that settled strictly inside the range,
\* on a box whose two axes ask for different zooms.
C7_Witness ==
    /\ call.name = "auto_zoom_to_board"
    /\ call.connected
    /\ call.arg # None
    /\ call.arg[1][1] * call.arg[1][4] # call.arg[1][2] * call.arg[1][3]
    /\ RatLess(One, zoom_level)
    /\ RatLess(zoom_level, max_zoom)

\* The magnification the software crop and resize give a frame.
SoftwareMagnification(f) == Rat(f.src_w, slice_len(f.cols))

\* The magnification of a frame against the scene: the device's own, times
\* that of the software crop and resize.
TotalMagnification(f) == RatMul(f.hw_mag, SoftwareMagnification(f))

\* C8: for every sequence of zoom requests and frame polls, the total
\* magnification of the frames get_frame returns is the same whether the
\* device honours the hardware zoom property or ignores it: the software
\* crop and resize alone determine it.
C8_HardwareZoomIndifferent ==
    (call.name = "get_frame" /\ frame # None) =>
        TotalMagnification(frame[1]) = SoftwareMagnification(frame[1])

\* C17: whenever a camera session starts (the CameraManager is constructed,
\* or connect() succeeds on a camera that was not connected), the zoom level
\* is 1.0, whatever zoom requests the session before it made.
C17_SessionStartsAtOne ==
    /\ call.name = "__init__" => zoom_level = One
    /\ (call.name = "connect" /\ ~call.connected /\ call.ret = "True") =>
            zoom_level = One

\* C19: for every zoom level in [0.5, 4.0], _apply_zoom crops the rectangle
\* of size floor(w / zoom) x floor(h / zoom) centred in the frame (the
\* margins left and right, and top and bottom, differ by one pixel at most)
\* and resizes it back to w x h; at zoom level 1.0 the frame is returned as
\* it is.
C19_CentredCrop ==
    frame # None =>
        LET f == frame[1]
            z == f.zoom
        IN  /\ InZoomRange(z)
            /\ f.w = f.src_w /\ f.h = f.src_h
            /\ IF z = One
               THEN f.cols = <<0, f.src_w>> /\ f.rows = <<0, f.src_h>>
               ELSE /\ f.cols[2] - f.cols[1] = (f.src_w * z[2]) \div z[1]
                    /\ f.rows[2] - f.rows[1] = (f.src_h * z[2]) \div z[1]
                    /\ Abs(f.cols[1] - (f.src_w - f.cols[2])) <= 1
                    /\ Abs(f.rows[1] - (f.src_h - f.rows[2])) <= 1

\* C18: set_zoom, set_focus and set_auto_focus return True or False and
\* never raise: False when the camera is not connected; on a connected
\* camera set_zoom returns True with or without a hardware zoom, and
\* set_focus and set_auto_focus return False when the device answers that
\* the control is not there or raises, True otherwise.
C18_ControlsReturnBooleans ==
    call.name \in {"set_zoom", "set_focus", "set_auto_focus"} =>
        /\ call.ret \in {"True", "False"}
        /\ ~call.connected => call.ret = "False"
        /\ (call.connected /\ call.name = "set_zoom") => call.ret = "True"
        /\ (call.connected /\ call.name # "set_zoom") =>
                (call.ret = "False" <=> call.arg[1][2] \in {"unsupported", "raises"})

\* set_focus on a connected camera whose device raised, after a set_zoom
\* on a device without hardware zoom.
C18_Witness ==
    /\ call.name = "set_focus"
    /\ call.connected
    /\ call.arg[1][2] = "raises"
    /\ call.ret = "False"
    /\ ~cap[1].hw_zoom
    /\ zoom_level # One

\* The contours of the frame that pass the filters on area, vertices and
\* aspect ratio.
PassingContours ==
    { i \in 1..Len(detected[1].contours) :
        LET c == detected[1].contours[i]
        IN  /\ c.area >= detected[1].settings.min_board_area
            /\ c.vertices \in 4..6
            /\ 2 * c.w >= c.h /\ c.w <= 2 * c.h }

\* C15: detect_board returns a candidate only if it has area >=
\* min_board_area, a polygon of 4 to 6 vertices, an aspect ratio in
\* [0.5, 2.0] and a confidence >= board_confidence_threshold; the candidate
\* returned has the highest confidence of the contours that pass the first
\* three filters; when the best is below the threshold, or no contour
\* passes, it returns None.
C15_BestCandidateOrNone ==
    detected # None =>
        LET d   == detected[1]
            thr == d.settings.board_confidence_threshold
        IN  /\ d.result # None =>
                \E i \in PassingContours :
                    /\ d.result[1].contour = d.contours[i]
                    /\ d.result[1].confidence = confidence(d.contours[i])
                    /\ RatLeq(thr, d.result[1].confidence)
                    /\ \A j \in PassingContours :
                          RatLeq(confidence(d.contours[j]), d.result[1].confidence)
            /\ (\A i \in PassingContours : RatLess(confidence(d.contours[i]), thr))
                    => d.result = None

\* A frame with two contours that pass the filters, the second the better
\* one and returned, at the default settings.
C15_Witness ==
    /\ detected # None
    /\ detected[1].settings.min_board_area = 10000
    /\ PassingContours = {1, 2}
    /\ detected[1].result # None
    /\ detected[1].result[1].contour = detected[1].contours[2]
    /\ detected[1].contours[1] # detected[1].contours[2]
    /\ RatLeq(<<7, 10>>, confidence(detected[1].contours[1]))

\* C25: is_connected is True only if the most recent connect() returned
\* True and no disconnect() followed it: it is False before any call, after
\* a disconnect(), and after a connect() that returned False, also when an
\* earlier connect() had succeeded.
C25_ConnectedOnlyAfterSuccess ==
    /\ call.name \in {"__init__", "disconnect"} => ~is_connected
    /\ (call.name = "connect" /\ call.ret = "False") => ~is_connected

\* C26: a set_focus or set_auto_focus that returns False (camera not
\* connected, control not there, device error) leaves the auto_focus flag
\* and focus_distance as they were before the call.
C26_FailedFocusChangesNothing ==
    [][ (call'.name \in {"set_focus", "set_auto_focus"} /\ call'.ret = "False")
            => (auto_focus' = auto_focus /\ focus_distance' = focus_distance) ]_vars

BoardNames == {"A", "B"}
Placeholder == "-- Select a board --"
\* The board in front of the camera that the window has no name for.
Unnamed == ""

\* f"sample_{timestamp}_{board_name}", the timestamp to the second.
sample_id_of(timestamp, board_name) == <<timestamp, board_name>>

\* QAManager.get_qa_sample: the metadata, or None when the sample is not
\* there or one of its image files is missing.
get_qa_sample(samples, sample_id) ==
    LET found == { i \in 1..Len(samples) :
                     samples[i].sample_id = sample_id /\ samples[i].valid }
    IN  IF found = {} THEN None ELSE Some(samples[CHOOSE i \in found : TRUE])

\* QAManager.create_qa_sample with both temporary files in place: the
\* sample directory is named by the id, so a second sample of the same name
\* in the same second takes the place of the first.  list_qa_samples sorts
\* newest first.
create_qa_sample(samples, timestamp, board_name) ==
    LET id == sample_id_of(timestamp, board_name)
    IN  << [ sample_id |-> id, board_name |-> board_name, valid |-> TRUE ] >>
        \o SelectSeq(samples, LAMBDA m : m.sample_id # id)

update_status(g) ==
    LET has_board   == g.current_board_name # ""
        can_capture == has_board /\ g.camera_connected
        can_inspect == has_board /\ g.front_captured /\ g.back_captured
    IN  [ g EXCEPT !.capture_front_btn = can_capture,
                   !.capture_back_btn  = can_capture,
                   !.inspect_btn       = can_inspect ]

currentText(c) == IF c.index = 0 THEN "" ELSE c.items[c.index].text
currentData(c) == IF c.index = 0 THEN None ELSE c.items[c.index].data

on_board_selected(s, samples, board_name) ==
    LET sample_id == currentData(s.combo)
        loaded    == /\ board_name # Placeholder
                     /\ sample_id # None
                     /\ get_qa_sample(samples, sample_id[1]) # None
    IN  [ s EXCEPT !.gui = update_status(
            [ s.gui EXCEPT
                !.current_board_name =
                    IF board_name = Placeholder THEN "" ELSE board_name,
                !.front_captured = loaded,
                !.back_captured  = loaded ]) ]

\* QComboBox.setCurrentIndex: currentTextChanged is emitted when the text
\* of the current item is not the text it was.
setCurrentIndex(s, samples, i) ==
    LET moved == [ s EXCEPT !.combo.index = i ]
    IN  IF currentText(moved.combo) = currentText(s.combo)
        THEN moved
        ELSE on_board_selected(moved, samples, currentText(moved.combo))

\* QComboBox.findText: the first item with the text, 0 when there is none.
findText(c, text) ==
    LET hits == { i \in 1..Len(c.items) : c.items[i].text = text }
    IN  IF hits = {} THEN 0 ELSE CHOOSE i \in hits : \A j \in hits : i <= j

\* QComboBox.setCurrentText on a combo box that is not editable.
setCurrentText(s, samples, text) ==
    IF findText(s.combo, text) > 0
    THEN setCurrentIndex(s, samples, findText(s.combo, text))
    ELSE s

\* QComboBox.addItem: the first item of an empty combo box becomes current.
addItem(s, samples, text, data) ==
    LET added == [ s EXCEPT !.combo.items = Append(@, [ text |-> text, data |-> data ]) ]
    IN  IF Len(s.combo.items) = 0 THEN setCurrentIndex(added, samples, 1) ELSE added

\* QComboBox.clear: no item is current afterwards.
clear(s, samples) ==
    LET emptied == [ s EXCEPT !.combo = [ items |-> << >>, index |-> 0 ] ]
    IN  IF currentText(s.combo) = "" THEN emptied
        ELSE on_board_selected(emptied, samples, "")

RECURSIVE addSamples(_, _, _)
addSamples(s, samples, rest) ==
    IF rest = << >> THEN s
    ELSE addSamples(addItem(s, samples, Head(rest).board_name,
                            Some(Head(rest).sample_id)),
                    samples, Tail(rest))

load_existing_boards(s, samples) ==
    addSamples(addItem(clear(s, samples), samples, Placeholder, None),
               samples, samples)

\* create_new_board once the dialog returned a name.
create_new_board(s, samples, board_name) ==
    LET named  == [ s EXCEPT !.gui.current_board_name = board_name ]
        picked == setCurrentText(addItem(named, samples, board_name, None),
                                 samples, board_name)
    IN  [ picked EXCEPT !.gui = update_status(
            [ picked.gui EXCEPT !.front_captured = FALSE,
                                !.back_captured  = FALSE ]) ]

\* save_qa_sample after create_qa_sample returned: the combo box is filled
\* again from the store, and the board the window holds is selected again.
save_qa_sample(s, samples) ==
    LET loaded == load_existing_boards(s, samples)
    IN  setCurrentText(loaded, samples, loaded.gui.current_board_name)

(***************************************************************************)
(* openai_api.py: the remote judge; main.py: InspectionWorker.run          *)
(***************************************************************************)

\* What can happen to one call of OpenAIAnalyzer.analyze_pcb_image: is there
\* an API key, can the image be encoded, does the request come back without
\* a RequestException, has the answer the choices/message/content shape,
\* and is its text JSON.
JudgeCalls ==
    { [ api_key |-> k, encoded |-> e, http_ok |-> h, shaped |-> c, json |-> j ] :
        k \in BOOLEAN, e \in BOOLEAN, h \in BOOLEAN, c \in BOOLEAN, j \in BOOLEAN }

\* analyze_pcb_image: it returns a dict on every path and raises on none.
\* Text that is not JSON is not a failure: the answer is kept as a
\* needs_review analysis.
analyze_pcb_image(j) ==
    IF ~j.api_key THEN [ success |-> FALSE, error |-> "No OpenAI API key configured",
                         overall_quality |-> "" ]
    ELSE IF ~j.encoded THEN [ success |-> FALSE, error |-> "Failed to encode image",
                              overall_quality |-> "" ]
    ELSE IF ~j.http_ok THEN [ success |-> FALSE, error |-> "API request failed",
                              overall_quality |-> "" ]
    ELSE IF ~j.shaped  THEN [ success |-> FALSE, error |-> "Analysis failed",
                              overall_quality |-> "" ]
    ELSE [ success |-> TRUE, error |-> "",
           overall_quality |-> IF j.json THEN "pass" ELSE "needs_review" ]

compare_pcb_images(j) == analyze_pcb_image(j)

\* The results analyze_pcb_image can give.
JudgeResults == { compare_pcb_images(j) : j \in JudgeCalls }

\* compare_images' default threshold, in hundredths.
threshold == 95

\* What align_images reports: success, or the error it returned with the
\* test image unchanged.
AlignOutcomes ==
    { "success", "No features detected", "Insufficient matches",
      "Homography computation failed" }

alignment_info(o) ==
    [ success |-> o = "success", error |-> IF o = "success" THEN "" ELSE o ]

\* What compare_images can meet: an exception, or a similarity score with
\* the crops of the regions that differ.
CompareOutcomes ==
    { [ raised |-> TRUE,  score |-> 0,  crops |-> << >> ],
      [ raised |-> FALSE, score |-> 97, crops |-> << >> ],
      [ raised |-> FALSE, score |-> 80, crops |-> << [ ok |-> TRUE, sim |-> 20 ] >> ] }

\* compare_images that passes only above the threshold.
compare_images_strictly_above(o, t) ==
    IF o.raised
    THEN [ error |-> TRUE, similarity_score |-> 0, passed |-> FALSE,
           regions_of_interest |-> << >> ]
    ELSE [ error |-> FALSE, similarity_score |-> o.score,
           passed |-> o.score > t,
           regions_of_interest |-> MakeRegions(o.crops) ]

\* compare_images(reference_img, test_img, threshold): the result dict, or
\* the dict with the error alone, which has no passed key.
compare_images_at(o, t) ==
    IF o.raised
    THEN [ error |-> TRUE, similarity_score |-> 0, passed |-> FALSE,
           regions_of_interest |-> << >> ]
    ELSE [ error |-> FALSE, similarity_score |-> o.score,
           passed |-> o.score >= t,
           regions_of_interest |-> MakeRegions(o.crops) ]

\* compare_images(reference_img, test_img), as run calls it.
compare_images(o) == compare_images_at(o, threshold)

\* The thresholds a call is followed with (an empty argument is the
\* default), and the similarity scores: the values about each threshold.
Thresholds == { None, Some(70), Some(90), Some(threshold) }

CompareScores == SimValues \cup { threshold - 1, threshold, threshold + 1 }

CompareCalls ==
    [ raised : {FALSE}, score : CompareScores, crops : { << >> } ]
        \cup { o \in CompareOutcomes : o.raised }

threshold_of(arg) == IF arg = None THEN threshold ELSE arg[1]

\* f"Total defects found: {n}".
TotalDefectsLine(n) == << "Total defects found: ", n >>

\* The message _generate_recommendations has for a severity (none for a
\* severity it does not know).
severity_message(severity) ==
    CASE severity = "critical" ->
            << "CRITICAL: Missing components detected - board requires rework" >>
      [] severity = "high" ->
            << "HIGH: Component misalignment detected - manual inspection recommended" >>
      [] severity = "medium" ->
            << "MEDIUM: Soldering defects detected - review soldering quality" >>
      [] severity = "low" ->
            << "LOW: Minor defects detected - board may be acceptable" >>
      [] OTHER -> << >>

\* _generate_recommendations without the return after the first message.
generate_recommendations_always_counting(defect_analysis) ==
    IF defect_analysis.total_defects = 0
    THEN << "Board passes inspection - no defects detected",
            TotalDefectsLine(defect_analysis.total_defects) >>
    ELSE severity_message(defect_analysis.severity)
            \o << TotalDefectsLine(defect_analysis.total_defects) >>

\* _generate_recommendations(defect_analysis).
generate_recommendations(defect_analysis) ==
    IF defect_analysis.total_defects = 0
    THEN << "Board passes inspection - no defects detected" >>
    ELSE severity_message(defect_analysis.severity)
            \o << TotalDefectsLine(defect_analysis.total_defects) >>

\* generate_inspection_report that passes a board whose comparison failed.
generate_inspection_report_passing_errors(comparison_result, defect_analysis) ==
    [ overall_result   |-> IF comparison_result.error \/ comparison_result.passed
                           THEN "PASS" ELSE "FAIL",
      similarity_score |-> comparison_result.similarity_score,
      defect_summary   |-> defect_analysis,
      total_regions_analyzed |-> Len(comparison_result.regions_of_interest),
      recommendations  |-> generate_recommendations(defect_analysis) ]

\* generate_inspection_report(qa_sample_id, test_image_path,
\* comparison_result, defect_analysis): comparison_result.get("passed", False)
\* is False for the dict of a failed comparison.
generate_inspection_report(comparison_result, defect_analysis) ==
    [ overall_result   |-> IF comparison_result.passed THEN "PASS" ELSE "FAIL",
      similarity_score |-> comparison_result.similarity_score,
      defect_summary   |-> defect_analysis,
      total_regions_analyzed |-> Len(comparison_result.regions_of_interest),
      recommendations  |-> generate_recommendations(defect_analysis) ]

\* compare_images is called with a threshold, or with none.
CompareAtThreshold ==
    /\ compared = None
    /\ \E o \in CompareCalls : \E arg \in Thresholds :
        compared' = Some([ call   |-> o, arg |-> arg,
                           result |-> compare_images_at(o, threshold_of(arg)) ])
    /\ UNCHANGED <<regions, analysis, aligned, report>>
    /\ UNCHANGED cameraVars
    /\ UNCHANGED sessionVars

\* generate_inspection_report is called on the comparison result.
GenerateInspectionReport ==
    /\ compared # None
    /\ report = None
    /\ report' = Some(generate_inspection_report(
                        compared[1].result,
                        analyze_defects(compared[1].result.regions_of_interest)))
    /\ UNCHANGED <<regions, analysis, aligned, compared>>
    /\ UNCHANGED cameraVars
    /\ UNCHANGED sessionVars

\* C14: compare_images reports passed exactly when the similarity score is
\* at least the threshold given to the call (0.95 when none is given), and
\* generate_inspection_report gives PASS exactly when passed is true.
C14_PassedIffAtLeastThreshold ==
    /\ compared # None =>
            LET c == compared[1]
                t == IF c.arg = None THEN 95 ELSE c.arg[1]
            IN  c.result.passed <=> (~c.call.raised /\ c.call.score >= t)
    /\ report # None =>
            ((report[1].overall_result = "PASS") <=> compared[1].result.passed)
    /\ report # None => report[1].overall_result \in {"PASS", "FAIL"}

\* A report on a comparison whose score is the threshold itself, called
\* with a threshold other than the default.
C14_Witness ==
    /\ report # None
    /\ compared[1].arg = Some(90)
    /\ compared[1].call.score = 90
    /\ report[1].overall_result = "PASS"

(***************************************************************************)
(* inspector.py: compare_images, from the difference contours on           *)
(***************************************************************************)

\* min_area of compare_images, in pixels.
min_area == 100

\* The difference contours of one comparison the model goes up to.
MaxDiffContours == 3

\* A difference contour: contourArea, and what the crop of its bounding
\* rectangle will give _analyze_region.
DiffContours ==
    [ area : { 100, 101, 400 },
      crop : { [ ok |-> TRUE, sim |-> 20 ], [ ok |-> TRUE, sim |-> 50 ],
               [ ok |-> TRUE, sim |-> 80 ], [ ok |-> TRUE, sim |-> 95 ],
               [ ok |-> FALSE, sim |-> 0 ] } ]

DiffContourSeqs == UNION { [ 1..n -> DiffContours ] : n \in 0..MaxDiffContours }

\* The area filter with >= for >.
is_significant_inclusive(c) == c.area >= min_area

\* cv2.contourArea(c) > min_area.
is_significant(c) == c.area > min_area

significant_contours(contours) == SelectSeq(contours, is_significant)

\* regions_of_interest: one region for each significant contour, with the
\* index enumerate gives it.
regions_of_interest(contours) ==
    LET sig == significant_contours(contours)
    IN  [ i \in 1..Len(sig) |->
            [ id |-> i - 1, bbox |-> <<i, i, 20, 20>>, area |-> sig[i].area,
              crop |-> sig[i].crop ] ]

\* compare_images(reference_img, test_img, threshold) on images whose
\* difference mask has these contours.
compare_images_on(o, t) ==
    IF o.raised
    THEN [ error |-> TRUE, similarity_score |-> 0, passed |-> FALSE,
           regions_of_interest |-> << >>, total_regions |-> 0 ]
    ELSE [ error |-> FALSE, similarity_score |-> o.score,
           passed |-> o.score >= t,
           regions_of_interest |-> regions_of_interest(o.contours),
           total_regions |-> Len(regions_of_interest(o.contours)) ]

\* The comparisons followed: a score on either side of the threshold with
\* any contours, and a comparison that raised.
ContourCalls ==
    [ raised : {FALSE}, score : { threshold - 1, threshold + 1 },
      contours : DiffContourSeqs ]
        \cup { [ raised |-> TRUE, score |-> 0, contours |-> << >> ] }

\* compare_images is called, as run calls it.
CompareContours ==
    /\ compared = None
    /\ \E o \in ContourCalls :
        compared' = Some([ call |-> o, arg |-> None,
                           result |-> compare_images_on(o, threshold) ])
    /\ UNCHANGED <<regions, analysis, aligned, report>>
    /\ UNCHANGED cameraVars
    /\ UNCHANGED sessionVars

\* The contours of the call with an area above 100, and the k-th of them.
KeptContours ==
    { i \in 1..Len(compared[1].call.contours) : compared[1].call.contours[i].area > 100 }

KthKept(k) ==
    CHOOSE i \in KeptContours : Cardinality({ j \in KeptContours : j <= i }) = k

\* C21: compare_images turns into a region exactly the difference contours
\* whose area is greater than 100, in their order; the regions carry the ids
\* 0, 1, ..., n-1, and total_regions is their number.
C21_RegionsAreLargeContours ==
    (compared # None /\ ~compared[1].call.raised) =>
        LET cs == compared[1].call.contours
            rs == compared[1].result.regions_of_interest
        IN  /\ Len(rs) = Cardinality(KeptContours)
            /\ compared[1].result.total_regions = Len(rs)
            /\ \A k \in 1..Len(rs) :
                  /\ rs[k].id = k - 1
                  /\ rs[k].area = cs[KthKept(k)].area
                  /\ rs[k].crop = cs[KthKept(k)].crop

\* A comparison whose contours have the areas 100, 101 and 400: two regions.
C21_Witness ==
    /\ compared # None
    /\ ~compared[1].call.raised
    /\ Len(compared[1].call.contours) = 3
    /\ compared[1].call.contours[1].area = 100
    /\ compared[1].call.contours[2].area = 101
    /\ compared[1].call.contours[3].area = 400
    /\ compared[1].result.total_regions = 2
    /\ compared[1].result.regions_of_interest[2].id = 1

\* The one message of each severity band.
BandMessage(severity) ==
    CASE severity = "none"     -> "Board passes inspection - no defects detected"
      [] severity = "low"      -> "LOW: Minor defects detected - board may be acceptable"
      [] severity = "medium"   -> "MEDIUM: Soldering defects detected - review soldering quality"
      [] severity = "high"     ->
            "HIGH: Component misalignment detected - manual inspection recommended"
      [] severity = "critical" ->
            "CRITICAL: Missing components detected - board requires rework"

\* C22 as stated: the recommendations are the one message of the severity
\* band together with a line that states the number of defects found.
C22_BandMessageAndCount ==
    report # None =>
        report[1].recommendations =
            << BandMessage(report[1].defect_summary.severity),
               << "Total defects found: ", report[1].defect_summary.total_defects >> >>

\* C22: the recommendations are a function of severity and defect count
\* only: with no defect, the one message that the board passes and no line
\* with a count; with defects, the one message of the severity band (low,
\* medium, high, critical) followed by the line that states their number.
C22_CountOnlyWithDefects ==
    report # None =>
        LET summary == report[1].defect_summary
        IN  /\ summary.total_defects = 0 <=> summary.severity = "none"
            /\ report[1].recommendations =
                    IF summary.total_defects = 0
                    THEN << BandMessage("none") >>
                    ELSE << BandMessage(summary.severity),
                            << "Total defects found: ", summary.total_defects >> >>

\* A report on a comparison with regions, none of which gave a defect.
C22_Witness ==
    /\ report # None
    /\ report[1].total_regions_analyzed = 2
    /\ report[1].defect_summary.total_defects = 0
    /\ Len(report[1].recommendations) = 1

\* C29: in every report built from the results of compare_images and
\* analyze_defects the verdict and the defect summary agree: overall_result
\* is PASS only if the severity is none, and the recommendation that the
\* board passes inspection appears only if overall_result is PASS.
C29_VerdictAgreesWithSummary ==
    report # None =>
        /\ report[1].overall_result = "PASS" =>
                report[1].defect_summary.severity = "none"
        /\ (\E i \in 1..Len(report[1].recommendations) :
                report[1].recommendations[i]
                    = "Board passes inspection - no defects detected")
                => report[1].overall_result = "PASS"



\* An InspectionWorker: where run is, the locals of run (alignment_info,
\* comparison_result, defect_analysis, ai_result) and the signal that ended
\* it.  pc is "none" when there is no worker, "done" when run returned.
NoComparison == compare_images([ raised |-> FALSE, score |-> 0, crops |-> << >> ])
NoJudge == [ success |-> FALSE, error |-> "", overall_quality |-> "" ]

NoWorker ==
    [ pc |-> "none", qa_sample_id |-> None, loaded |-> FALSE,
      alignment |-> alignment_info("success"), comparison |-> NoComparison,
      defects |-> analyze_defects(<< >>), ai |-> NoJudge,
      ended |-> "" ]

InspectionWorker(sample_id) ==
    [ NoWorker EXCEPT !.pc = "start", !.qa_sample_id = Some(sample_id) ]

Running(w) == w.pc \in {"start", "cv", "ai", "report", "blocked"}

\* run has returned after the signal that ended it: its locals are gone.
Returned(w, ended) ==
    [ NoWorker EXCEPT !.pc = "done", !.qa_sample_id = w.qa_sample_id,
                      !.loaded = w.loaded, !.ended = ended ]

\* A combined_result that keeps the defect analysis only when the judge
\* answered.
combined_result_judge_overrides(w, ai_result) ==
    [ opencv_analysis |->
        [ alignment  |-> w.alignment,
          comparison |-> w.comparison,
          defects    |-> IF ai_result.success THEN w.defects
                         ELSE analyze_defects(<< >>) ],
      ai_analysis  |-> ai_result,
      qa_sample_id |-> w.qa_sample_id ]

combined_result(w, ai_result) ==
    [ opencv_analysis |->
        [ alignment  |-> w.alignment,
          comparison |-> w.comparison,
          defects    |-> w.defects ],
      ai_analysis  |-> ai_result,
      qa_sample_id |-> w.qa_sample_id ]

Signal(kind, message, payload) ==
    [ kind |-> kind, message |-> message, payload |-> payload ]

\* run without the return after QA sample not found.
run_load_sample_going_on(w, samples) ==
    IF get_qa_sample(samples, w.qa_sample_id[1]) = None
    THEN [ w |-> [ w EXCEPT !.pc = "cv" ],
           emitted |-> << Signal("progress_updated", "Loading QA sample...", None),
                          Signal("inspection_error", "QA sample not found", None) >> ]
    ELSE [ w |-> [ w EXCEPT !.pc = "cv" ],
           emitted |-> << Signal("progress_updated", "Loading QA sample...", None) >> ]

\* run, up to the sample: progress, then the sample or the error signal.
run_load_sample(w, samples) ==
    IF get_qa_sample(samples, w.qa_sample_id[1]) = None
    THEN [ w |-> Returned(w, "inspection_error"),
           emitted |-> << Signal("progress_updated", "Loading QA sample...", None),
                          Signal("inspection_error", "QA sample not found", None) >> ]
    ELSE [ w |-> [ w EXCEPT !.pc = "cv" ],
           emitted |-> << Signal("progress_updated", "Loading QA sample...", None) >> ]

\* run, the computer vision part: the two images are read, then aligned,
\* compared and analysed.  Neither alignment_info nor comparison_result is
\* looked at before the next call.
run_computer_vision(w, images_read, align, compare) ==
    IF ~images_read
    THEN [ w |-> Returned(w, "inspection_error"),
           emitted |-> << Signal("progress_updated",
                                 "Performing computer vision analysis...", None),
                          Signal("inspection_error",
                                 "Failed to load images for analysis", None) >> ]
    ELSE [ w |-> [ w EXCEPT !.pc = "ai", !.loaded = TRUE,
                            !.alignment  = alignment_info(align),
                            !.comparison = compare_images(compare),
                            !.defects    =
                                analyze_defects(compare_images(compare).regions_of_interest) ],
           emitted |-> << Signal("progress_updated",
                                 "Performing computer vision analysis...", None) >> ]

\* run, the call of the judge.
run_ai_analysis(w, j) ==
    [ w |-> [ w EXCEPT !.pc = "report", !.ai = compare_pcb_images(j) ],
      emitted |-> << Signal("progress_updated", "Performing AI analysis...", None) >> ]

\* run, the call of the judge when the server accepts the request and never
\* answers: requests.post is called without a timeout and does not return.
run_ai_analysis_unanswered(w) ==
    [ w |-> [ w EXCEPT !.pc = "blocked" ],
      emitted |-> << Signal("progress_updated", "Performing AI analysis...", None) >> ]

\* run, the report: the results are combined and inspection_complete ends
\* the run.
run_report(w) ==
    [ w |-> Returned(w, "inspection_complete"),
      emitted |-> << Signal("progress_updated",
                            "Generating comprehensive report...", None),
                     Signal("inspection_complete", "",
                            Some(combined_result(w, w.ai))) >> ]

(***************************************************************************)
(* main.py: the handlers of MainWindow as actions                          *)
(***************************************************************************)

\* Bounds of the model: the seconds the clock counts, the items the
\* combo box is followed to and the samples the store is followed to.
MaxClock == 3
MaxItems == 3
MaxSamples == 3

\* The stores a session can start on: empty, one sample, and a sample with
\* a newer one of the same board whose images are gone.
sampleA == [ sample_id |-> sample_id_of(0, "A"), board_name |-> "A", valid |-> TRUE ]
sampleGone == [ sample_id |-> sample_id_of(1, "A"), board_name |-> "A", valid |-> FALSE ]
InitialStores == { << >>, << sampleA >>, << sampleGone, sampleA >> }

\* The behaviours followed.  A patient user leaves the window alone while
\* a run is going on, names new boards, and the runs meet every outcome of
\* alignment, comparison and judge.  An impatient user clicks at any time,
\* on the boards there are and within a second of the clock, and the runs
\* are those whose images compare.
Users == {"patient", "impatient"}
AlignChoices ==
    IF user = "patient" THEN AlignOutcomes ELSE {"success", "Insufficient matches"}
CompareChoices ==
    IF user = "patient" THEN CompareOutcomes
    ELSE { o \in CompareOutcomes : ~o.raised /\ o.crops = << >> }
\* MainWindow.__init__ leaves the process when it has no API key, so the
\* analyzer of a session is one with a key.
JudgeChoices ==
    IF user = "patient" THEN { j \in JudgeCalls : j.api_key }
    ELSE { j \in JudgeCalls : j.api_key /\ j.encoded /\ j.http_ok /\ j.shaped /\ j.json }

NoRequest ==
    [ request |-> "none", running |-> FALSE, frame |-> FALSE, board |-> FALSE,
      route |-> "", started |-> FALSE, prompted |-> FALSE, matched |-> None ]

\* MainWindow.__init__ from camera.connect() on: the fields, setup_ui,
\* setup_camera_timer, load_existing_boards.
MainWindow(connected, samples) ==
    load_existing_boards(
        [ gui |-> [ camera_connected   |-> connected,
                    current_board_name |-> "",
                    front_captured     |-> FALSE,
                    back_captured      |-> FALSE,
                    capture_front_btn  |-> connected,
                    capture_back_btn   |-> connected,
                    inspect_btn        |-> connected,
                    progress_bar       |-> FALSE ],
          combo |-> [ items |-> << >>, index |-> 0 ] ],
        samples)

SessionAt(connected, samples, u) ==
    /\ gui = MainWindow(connected, samples).gui
    /\ combo = MainWindow(connected, samples).combo
    /\ disk = [ samples |-> samples, clock |-> 2, temp_front |-> None ]
    /\ worker = NoWorker
    /\ orphan = NoWorker
    /\ signals = << >>
    /\ outcome = NoRequest
    /\ crashed = FALSE
    /\ user = u

InitSession ==
    \E connected \in BOOLEAN, samples \in InitialStores, u \in Users :
        SessionAt(connected, samples, u)

\* The session of a specification that is about something else: a window
\* without camera and samples that nobody touches.
IdleSession == SessionAt(FALSE, << >>, "patient")

Window == [ gui |-> gui, combo |-> combo ]

\* The user can act on the window: the process is there, the event loop
\* has delivered the signals posted to the main thread (Qt sends the posted
\* events before it dispatches the next input event), and a patient user
\* waits for the run.
UserMay ==
    /\ ~crashed
    /\ signals = << >>
    /\ user = "impatient" \/ (~Running(worker) /\ ~Running(orphan))

SetWindow(s) ==
    /\ gui' = s.gui
    /\ combo' = s.combo

\* The seconds go by.
Tick ==
    /\ ~crashed
    /\ user = "patient"
    /\ disk.clock < MaxClock
    /\ disk' = [ disk EXCEPT !.clock = @ + 1 ]
    /\ outcome' = NoRequest
    /\ UNCHANGED <<gui, combo, worker, orphan, signals, crashed, user>>
    /\ UNCHANGED defectVars
    /\ UNCHANGED cameraVars

\* The user picks another item of board_combo.
SelectBoard ==
    /\ UserMay
    /\ \E i \in 1..Len(combo.items) :
        /\ i # combo.index
        /\ SetWindow(setCurrentIndex(Window, disk.samples, i))
    /\ outcome' = NoRequest
    /\ UNCHANGED <<disk, worker, orphan, signals, crashed, user>>
    /\ UNCHANGED defectVars
    /\ UNCHANGED cameraVars

\* New Board, and a name typed into the dialog.
CreateNewBoard ==
    /\ UserMay
    /\ user = "patient"
    /\ Len(combo.items) < MaxItems
    /\ \E board_name \in BoardNames :
        SetWindow(create_new_board(Window, disk.samples, board_name))
    /\ outcome' = NoRequest
    /\ UNCHANGED <<disk, worker, orphan, signals, crashed, user>>
    /\ UNCHANGED defectVars
    /\ UNCHANGED cameraVars

\* Capture Front: with a camera, a board name, a frame and a snapshot the
\* front is captured into temp_front.jpg.
CaptureFront ==
    /\ UserMay
    /\ gui.capture_front_btn
    /\ \E frame_read \in BOOLEAN, snapshot \in BOOLEAN :
        IF /\ gui.camera_connected /\ gui.current_board_name # ""
           /\ frame_read /\ snapshot
        THEN /\ gui' = update_status([ gui EXCEPT !.front_captured = TRUE ])
             /\ disk' = [ disk EXCEPT !.temp_front = Some(gui.current_board_name) ]
        ELSE UNCHANGED <<gui, disk>>
    /\ outcome' = NoRequest
    /\ UNCHANGED <<combo, worker, orphan, signals, crashed, user>>
    /\ UNCHANGED defectVars
    /\ UNCHANGED cameraVars

\* Capture Back: the back is captured into temp_back.jpg, and with the front
\* captured the QA sample is saved at once: create_qa_sample copies the two
\* temporary files and raises when one is not there, which save_qa_sample
\* catches before it touched the combo box.
CaptureBack ==
    /\ UserMay
    /\ gui.capture_back_btn
    /\ Len(disk.samples) < MaxSamples
    /\ \E frame_read \in BOOLEAN, snapshot \in BOOLEAN :
        IF /\ gui.camera_connected /\ gui.current_board_name # ""
           /\ frame_read /\ snapshot
        THEN LET captured == [ Window EXCEPT
                                 !.gui = update_status([ gui EXCEPT !.back_captured = TRUE ]) ]
                 samples  == create_qa_sample(disk.samples, disk.clock,
                                              gui.current_board_name)
             IN  IF gui.front_captured /\ disk.temp_front # None
                 THEN /\ SetWindow(save_qa_sample(captured, samples))
                      /\ disk' = [ disk EXCEPT !.samples = samples ]
                 ELSE /\ SetWindow(captured)
                      /\ UNCHANGED disk
        ELSE UNCHANGED <<gui, combo, disk>>
    /\ outcome' = NoRequest
    /\ UNCHANGED <<worker, orphan, signals, crashed, user>>
    /\ UNCHANGED defectVars
    /\ UNCHANGED cameraVars

\* inspect_board as the branch it takes: what stops the request, or which
\* of _perform_inspection and _prompt_for_qc_sample_creation it ends in.
inspect_route_without_detection(connected, frame_read, board_found, snapshot, match) ==
    IF ~connected THEN "Camera Not Connected"
    ELSE IF ~frame_read THEN "Capture Failed"
    ELSE IF ~snapshot THEN "Capture Failed"
    ELSE IF match # None THEN "perform_inspection"
    ELSE "prompt_for_qc_sample_creation"

inspect_route(connected, frame_read, board_found, snapshot, match) ==
    IF ~connected THEN "Camera Not Connected"
    ELSE IF ~frame_read THEN "Capture Failed"
    ELSE IF ~board_found THEN "No Board Detected"
    ELSE IF ~snapshot THEN "Capture Failed"
    ELSE IF match # None THEN "perform_inspection"
    ELSE "prompt_for_qc_sample_creation"

\* The sample _identify_board_type finds to match best: any sample whose
\* front image it can read, by its place in list_qa_samples, or None.
BestMatches(samples) ==
    {None} \cup { Some(i) : i \in { k \in 1..Len(samples) : samples[k].valid } }

\* _identify_board_type returns the board_name of the best matching sample.
identify_board_type(samples, best) ==
    IF best = None THEN None ELSE Some(samples[best[1]].board_name)

Matches(samples) ==
    { identify_board_type(samples, best) : best \in BestMatches(samples) }

\* _perform_inspection looks for the first sample of the name.
first_sample_of(samples, board_name) ==
    LET hits == { i \in 1..Len(samples) : samples[i].board_name = board_name }
    IN  samples[CHOOSE i \in hits : \A j \in hits : i <= j]

\* _perform_inspection up to the new worker: the window shows the board and
\* an inspection in progress.
perform_inspection(s, samples, board_name) ==
    LET picked == setCurrentText([ s EXCEPT !.gui.current_board_name = board_name ],
                                 samples, board_name)
    IN  [ picked EXCEPT !.gui.inspect_btn = FALSE, !.gui.progress_bar = TRUE ]

\* _prompt_for_qc_sample_creation after Yes and a name.
start_qc_sample(s, samples, board_name) ==
    LET named  == [ s EXCEPT !.gui.current_board_name = board_name,
                             !.gui.front_captured = TRUE,
                             !.gui.back_captured  = FALSE ]
        picked == setCurrentText(addItem(named, samples, board_name, None),
                                 samples, board_name)
    IN  [ picked EXCEPT !.gui = [ update_status(picked.gui) EXCEPT
                                    !.capture_back_btn = TRUE ] ]

\* self.inspection_worker = InspectionWorker(...); start().  The statement
\* asks nothing about the worker the field refers to.  A worker that has
\* returned from run is let go.  A worker that is still running loses its
\* last reference while its thread runs: the thread runs on with its
\* signals connected, or the process is aborted with the QThread destroyed.
StartWorker(sample_id) ==
    /\ worker' = InspectionWorker(sample_id)
    /\ IF Running(worker)
       THEN \E aborted \in BOOLEAN :
                /\ crashed' = aborted
                /\ orphan' = IF aborted THEN orphan ELSE worker
       ELSE UNCHANGED <<orphan, crashed>>

\* Inspect Board.  The model follows one worker that lost its reference at
\* a time.
InspectBoard ==
    /\ UserMay
    /\ gui.inspect_btn
    /\ ~(Running(worker) /\ Running(orphan))
    /\ \E frame_read \in BOOLEAN, board_found \in BOOLEAN, snapshot \in BOOLEAN,
          best \in BestMatches(disk.samples) :
        LET match == identify_board_type(disk.samples, best)
            route == inspect_route(gui.camera_connected, frame_read,
                                   board_found, snapshot, match)
            request == [ request  |-> "inspect_board",
                         running  |-> Running(worker) \/ Running(orphan),
                         frame    |-> gui.camera_connected /\ frame_read,
                         board    |-> board_found,
                         route    |-> route,
                         started  |-> route = "perform_inspection",
                         prompted |-> route = "prompt_for_qc_sample_creation",
                         matched  |-> IF route = "perform_inspection"
                                      THEN Some(disk.samples[best[1]].sample_id)
                                      ELSE None ]
        IN  /\ outcome' = request
            /\ CASE route = "perform_inspection" ->
                    /\ SetWindow(perform_inspection(Window, disk.samples, match[1]))
                    /\ StartWorker(first_sample_of(disk.samples, match[1]).sample_id)
                    /\ UNCHANGED disk
                 [] route = "prompt_for_qc_sample_creation" ->
                    /\ \E answer \in {None} \cup { Some(n) : n \in BoardNames } :
                        IF answer # None /\ user = "patient" /\ Len(combo.items) < MaxItems
                        THEN /\ SetWindow(start_qc_sample(Window, disk.samples, answer[1]))
                             /\ disk' = [ disk EXCEPT !.temp_front = answer ]
                        ELSE /\ UNCHANGED <<gui, combo>>
                             /\ disk' = [ disk EXCEPT !.temp_front = Some(Unnamed) ]
                    /\ UNCHANGED <<worker, orphan, crashed>>
                 [] OTHER ->
                    UNCHANGED <<gui, combo, disk, worker, orphan, crashed>>
    /\ UNCHANGED <<signals, user>>
    /\ UNCHANGED defectVars
    /\ UNCHANGED cameraVars

\* One step of a worker's run: of the worker the window refers to, or of
\* the one that runs on without a reference.
WorkerStep(slot, step) ==
    /\ signals' = signals \o step.emitted
    /\ IF slot = "worker"
       THEN worker' = step.w /\ UNCHANGED orphan
       ELSE orphan' = step.w /\ UNCHANGED worker
    /\ outcome' = NoRequest
    /\ UNCHANGED <<gui, combo, disk, crashed, user>>
    /\ UNCHANGED defectVars
    /\ UNCHANGED cameraVars

Slots == {"worker", "orphan"}
WorkerIn(slot) == IF slot = "worker" THEN worker ELSE orphan

LoadSample ==
    /\ ~crashed
    /\ \E slot \in Slots :
        /\ WorkerIn(slot).pc = "start"
        /\ WorkerStep(slot, run_load_sample(WorkerIn(slot), disk.samples))

ComputerVision ==
    /\ ~crashed
    /\ \E slot \in Slots :
        /\ WorkerIn(slot).pc = "cv"
        /\ \E images_read \in BOOLEAN, align \in AlignChoices, compare \in CompareChoices :
            WorkerStep(slot, run_computer_vision(WorkerIn(slot), images_read,
                                                 align, compare))

AIAnalysis ==
    /\ ~crashed
    /\ \E slot \in Slots :
        /\ WorkerIn(slot).pc = "ai"
        /\ \E j \in JudgeChoices :
            WorkerStep(slot, run_ai_analysis(WorkerIn(slot), j))

\* The judge is called with a key and an image, and the request is never
\* answered.
JudgeNeverAnswers ==
    /\ ~crashed
    /\ \E slot \in Slots :
        /\ WorkerIn(slot).pc = "ai"
        /\ \E j \in JudgeChoices :
            /\ j.encoded
            /\ WorkerStep(slot, run_ai_analysis_unanswered(WorkerIn(slot)))

Report ==
    /\ ~crashed
    /\ \E slot \in Slots :
        /\ WorkerIn(slot).pc = "report"
        /\ WorkerStep(slot, run_report(WorkerIn(slot)))

\* The main thread handles the next queued signal: progress is shown,
\* handle_inspection_complete and handle_inspection_error hide the progress
\* bar and enable Inspect Board.
HandleSignal ==
    /\ ~crashed
    /\ signals # << >>
    /\ signals' = Tail(signals)
    /\ gui' = IF Head(signals).kind = "progress_updated" THEN gui
              ELSE [ gui EXCEPT !.progress_bar = FALSE, !.inspect_btn = TRUE ]
    /\ outcome' = NoRequest
    /\ UNCHANGED <<combo, disk, worker, orphan, crashed, user>>
    /\ UNCHANGED defectVars
    /\ UNCHANGED cameraVars

(***************************************************************************)
(* Claims about the inspection session                                     *)
(***************************************************************************)

Workers == { worker, orphan }

\* C1: at most one inspection run is in flight: an inspection request made
\* while a worker is running is rejected as busy and starts no worker, and
\* the running worker keeps its reference and goes on undisturbed.
C1_AtMostOneRunInFlight ==
    /\ ~(Running(worker) /\ Running(orphan))
    /\ orphan = NoWorker
    /\ ~crashed
    /\ (outcome.request = "inspect_board" /\ outcome.running) =>
            (outcome.route = "busy" /\ ~outcome.started)

CVFailed(w) == w.loaded /\ (~w.alignment.success \/ w.comparison.error)

\* C2: a run whose alignment or comparison failed goes no further, to the
\* judge or the report, and never ends with inspection_complete.
C2_FailedAlignmentFailsRun ==
    /\ \A w \in Workers : CVFailed(w) => w.pc \notin {"ai", "report"}
    /\ \A i \in 1..Len(signals) :
        signals[i].kind = "inspection_complete" =>
            /\ signals[i].payload[1].opencv_analysis.alignment.success
            /\ ~signals[i].payload[1].opencv_analysis.comparison.error

Aborts == { "Camera Not Connected", "Capture Failed", "No Board Detected" }

\* C3 as claimed: an inspection request that has a frame in which no board
\* is found is not aborted: it goes to the prompt for a QC sample.
C3_NoBoardGoesToPrompt ==
    (outcome.request = "inspect_board" /\ outcome.frame /\ ~outcome.board) =>
        (outcome.route \notin Aborts /\ outcome.prompted)

\* C3 as the code has it: an inspection request without a frame is aborted;
\* one with a frame in which no board is found is aborted as well, with the
\* No Board Detected warning, and neither starts a run nor prompts; the
\* prompt for a QC sample and the run are reached only with a board found.
C3_NoBoardStopsRequest ==
    outcome.request = "inspect_board" =>
        /\ ~outcome.frame => outcome.route \in {"Camera Not Connected", "Capture Failed"}
        /\ (outcome.frame /\ ~outcome.board) =>
                /\ outcome.route = "No Board Detected"
                /\ ~outcome.started
                /\ ~outcome.prompted
        /\ (outcome.started \/ outcome.prompted) => (outcome.frame /\ outcome.board)

C3_Witness ==
    /\ outcome.request = "inspect_board"
    /\ outcome.frame
    /\ ~outcome.board
    /\ outcome.route = "No Board Detected"

OpenCVAnalysis(w) ==
    [ alignment |-> w.alignment, comparison |-> w.comparison, defects |-> w.defects ]

\* C4: a run that found its sample and read its images ends with
\* inspection_complete whatever the judge returned, never with
\* inspection_error; the call of the judge leaves alignment, comparison and
\* defects as the computer vision part computed them, and they are the
\* opencv_analysis of the result the run emits.  (A step of a worker is a
\* step that emits signals and changes the worker.)
C4_JudgeNeverFailsRun ==
    [][ \A slot \in Slots :
          LET before == WorkerIn(slot)
              after  == WorkerIn(slot)'
          IN  (Len(signals') > Len(signals) /\ after # before) =>
                /\ before.pc = "ai" =>
                        /\ after.pc = "report"
                        /\ OpenCVAnalysis(after) = OpenCVAnalysis(before)
                /\ before.pc = "report" =>
                        /\ after.pc = "done"
                        /\ after.ended = "inspection_complete"
                        /\ signals'[Len(signals')].kind = "inspection_complete"
                        /\ signals'[Len(signals')].payload[1].opencv_analysis
                                = OpenCVAnalysis(before)
                        /\ signals'[Len(signals')].payload[1].ai_analysis = before.ai
                /\ before.loaded => after.ended # "inspection_error" ]_vars

\* A run has just ended with inspection_complete on a judge that failed,
\* with a defect in its opencv_analysis.
C4_Witness ==
    /\ signals # << >>
    /\ signals[Len(signals)].kind = "inspection_complete"
    /\ ~signals[Len(signals)].payload[1].ai_analysis.success
    /\ signals[Len(signals)].payload[1].ai_analysis.error = "API request failed"
    /\ signals[Len(signals)].payload[1].opencv_analysis.defects.total_defects > 0

(***************************************************************************)
(* qa_manager.py: create_qa_sample on board names with spaces               *)
(***************************************************************************)

\* Board names as the characters they are made of.
StoreNames == { <<"a", " ", "b">>, <<"a", "_", "b">>, <<"c">>, <<"d">> }

\* board_name.replace(' ', '_').
replace_spaces(board_name) ==
    [ i \in 1..Len(board_name) |-> IF board_name[i] = " " THEN "_" ELSE board_name[i] ]

\* The sample id create_qa_sample makes for a board name at a second.
sample_id_for(timestamp, board_name) ==
    sample_id_of(timestamp, replace_spaces(board_name))

\* What create_qa_sample leaves in the store: sample_dir.mkdir(exist_ok=True)
\* takes a directory that is there, and the copies and metadata.json are
\* written over what it holds.
write_sample(samples, id, board_name) ==
    << [ sample_id |-> id, board_name |-> board_name, valid |-> TRUE ] >>
        \o SelectSeq(samples, LAMBDA m : m.sample_id # id)

\* The seconds go by for the store.
StoreTick ==
    /\ disk.clock < MaxClock
    /\ disk' = [ disk EXCEPT !.clock = @ + 1 ]
    /\ UNCHANGED <<gui, combo, worker, orphan, signals, outcome, crashed, user>>
    /\ UNCHANGED defectVars
    /\ UNCHANGED cameraVars

\* create_qa_sample(board_name, front_image_path, back_image_path) with
\* both image files there; it returns the sample id.
CreateQASample ==
    /\ \E board_name \in StoreNames :
        disk' = [ disk EXCEPT !.samples =
                    write_sample(@, sample_id_for(disk.clock, board_name), board_name) ]
    /\ UNCHANGED <<gui, combo, worker, orphan, signals, outcome, crashed, user>>
    /\ UNCHANGED defectVars
    /\ UNCHANGED cameraVars

\* C27: every create_qa_sample that succeeds returns a sample id that no
\* sample of the store had, so a create writes over no earlier sample: the
\* newest sample of a store that a create has changed has an id the store
\* did not hold before, and every earlier sample is still there.
C27_CreateNeverOverwrites ==
    [][ disk'.samples # disk.samples =>
            /\ \A i \in 1..Len(disk.samples) :
                    disk.samples[i].sample_id # disk'.samples[1].sample_id
            /\ Tail(disk'.samples) = disk.samples ]_vars

\* The stages of run in their order, and the progress each announces.
StageRank(pc) ==
    CASE pc = "start"  -> 1
      [] pc = "cv"     -> 2
      [] pc = "ai"     -> 3
      [] pc = "report" -> 4
      [] OTHER         -> 5

ProgressOf(pc) ==
    CASE pc = "start"  -> "Loading QA sample..."
      [] pc = "cv"     -> "Performing computer vision analysis..."
      [] pc = "ai"     -> "Performing AI analysis..."
      [] OTHER         -> "Generating comprehensive report..."

TerminalSignals == { "inspection_complete", "inspection_error" }

\* C16: a run passes its stages in one order (sample lookup, computer
\* vision, judge, report): each step of a worker leaves one stage, announces
\* that stage's progress once and either enters the next stage or ends the
\* run with one terminal signal, inspection_complete only from the report;
\* a worker that has ended emits nothing and stays ended; a worker takes
\* the place of another only by an Inspect Board request that starts it.
C16_RunStagesInOrder ==
    [][ \A slot \in Slots :
          LET before == WorkerIn(slot)
              after  == WorkerIn(slot)'
              new    == SubSeq(signals', Len(signals) + 1, Len(signals'))
          IN  /\ (Len(signals') > Len(signals) /\ after # before) =>
                    /\ Running(before)
                    /\ new[1].kind = "progress_updated"
                    /\ new[1].message = ProgressOf(before.pc)
                    /\ IF after.pc = "done"
                       THEN /\ Len(new) = 2
                            /\ new[2].kind \in TerminalSignals
                            /\ new[2].kind = after.ended
                            /\ (new[2].kind = "inspection_complete")
                                    <=> (before.pc = "report")
                       ELSE /\ Len(new) = 1
                            /\ StageRank(after.pc) = StageRank(before.pc) + 1
              /\ (before.pc = "done" /\ after # before) =>
                    /\ outcome'.request = "inspect_board"
                    /\ outcome'.started
                    /\ signals' = signals
              /\ (after.pc = "start" /\ after # before) =>
                    (outcome'.request = "inspect_board" /\ outcome'.started) ]_vars

\* A run that went through all four stages lies ended beside a run that
\* ended at the sample lookup, their signals not yet handled.
C16_Witness ==
    /\ worker.pc = "done" /\ orphan.pc = "done"
    /\ { worker.ended, orphan.ended } = TerminalSignals
    /\ Len(signals) >= 2
    /\ signals[Len(signals)].kind \in TerminalSignals
    /\ signals[Len(signals) - 1].kind = "progress_updated"

\* C24: when inspect_board recognised the board by a stored sample and
\* started a run, the run's reference sample is that matched sample, also
\* when another sample carries the same board_name.
C24_RunUsesMatchedSample ==
    outcome.started => worker.qa_sample_id = outcome.matched

\* C23: a QA sample is saved only with a temp_front.jpg that holds a frame
\* taken for the board the sample is saved for.
C23_SavedFrontIsOfCurrentBoard ==
    [][ disk'.samples # disk.samples =>
            disk.temp_front = Some(gui.current_board_name) ]_vars

\* C30: every started run ends: its worker returns from run after
\* inspection_complete or inspection_error, and the window has handled the
\* signal, shows Inspect Board enabled and the progress bar hidden.
C30_RunEndsAndWindowRecovers ==
    Running(worker) ~>
        ( /\ worker.pc = "done"
          /\ signals = << >>
          /\ gui.inspect_btn
          /\ ~gui.progress_bar )

InitSessionSpec == InitSession /\ InitDefects /\ InitCamera

NextSession ==
    \/ Tick
    \/ SelectBoard
    \/ CreateNewBoard
    \/ CaptureFront
    \/ CaptureBack
    \/ InspectBoard
    \/ LoadSample
    \/ ComputerVision
    \/ AIAnalysis
    \/ Report
    \/ HandleSignal

SpecSession == InitSessionSpec /\ [][NextSession]_vars

\* The runs of a patient user on a store of one sample, with a judge that
\* may never answer.  The worker's thread goes on whenever it can and the
\* event loop delivers every queued signal; nothing makes the user act.
InitLive == SessionAt(TRUE, << sampleA >>, "patient") /\ InitDefects /\ InitCamera

NextLive ==
    \/ SelectBoard
    \/ InspectBoard
    \/ LoadSample
    \/ ComputerVision
    \/ AIAnalysis
    \/ JudgeNeverAnswers
    \/ Report
    \/ HandleSignal

SpecLive ==
    /\ InitLive
    /\ [][NextLive]_vars
    /\ WF_vars(LoadSample)
    /\ WF_vars(ComputerVision)
    /\ WF_vars(AIAnalysis \/ JudgeNeverAnswers)
    /\ WF_vars(Report)
    /\ WF_vars(HandleSignal)

InitCameraSpec == InitCamera /\ InitDefects /\ IdleSession

NextCamera ==
    \/ Connect
    \/ Disconnect
    \/ SetZoom
    \/ ZoomIn
    \/ ZoomOut
    \/ ResetZoom
    \/ GetFrame
    \/ AutoZoomToBoard

SpecCamera == InitCameraSpec /\ [][NextCamera]_vars

InitDefectSpec == InitDefects /\ InitCamera /\ IdleSession

NextDefects ==
    \/ CompareImages
    \/ AnalyzeDefects

SpecDefects == InitDefectSpec /\ [][NextDefects]_vars

NextFocus ==
    \/ Connect
    \/ Disconnect
    \/ SetZoom
    \/ SetFocus
    \/ SetAutoFocus

SpecFocus == InitCameraSpec /\ [][NextFocus]_vars

NextDetect ==
    \/ DetectBoard

SpecDetect == InitCameraSpec /\ [][NextDetect]_vars

NextAutoZoom ==
    \/ Connect
    \/ PlaceBoard
    \/ GetFrameOfBoard
    \/ AutoZoomToBoard

SpecAutoZoom == InitCameraSpec /\ [][NextAutoZoom]_vars

NextStore ==
    \/ StoreTick
    \/ CreateQASample

SpecStore == InitDefectSpec /\ [][NextStore]_vars

NextReport ==
    \/ CompareContours
    \/ GenerateInspectionReport

SpecReport == InitDefectSpec /\ [][NextReport]_vars

NextInspector ==
    \/ AlignImages
    \/ CompareAtThreshold
    \/ GenerateInspectionReport

SpecInspector == InitDefectSpec /\ [][NextInspector]_vars

=============================================================================
